---- MODULE Spec2Model ----
(***************************************************************************)
(* Verification model of gold-dashboard-arena: the local history store,    *)
(* the history aggregator (HistoryRepository) and its seed tables.         *)
(*                                                                         *)
(* Time.  A timestamp is an integer number of ticks, TicksPerDay ticks to  *)
(* a calendar day; DateOf(t) is the calendar day (days since 1970-01-01)   *)
(* and t % TicksPerDay the time of day.  Date(y, m, d) is what             *)
(* datetime.strptime(s, "%Y-%m-%d") yields: midnight of that day.          *)
(*                                                                         *)
(* Values.  Decimal amounts are integers in a fixed unit per asset: gold,  *)
(* bitcoin and land in 100 000 VND, usd_vnd in VND, vn30 in 0.01 index     *)
(* points.  An Optional[Decimal] is <<>> (None) or <<v>>.                  *)
(***************************************************************************)
EXTENDS Integers, Sequences, FiniteSets, TLC

VARIABLES store, call, clock, ops, recorded

vars == <<store, call, clock, ops, recorded>>

----------------------------------------------------------------------------
(* Bounds of the model *)

\* Recorded and fetched values range over 1..MaxValue.
MaxValue == 2

\* Operations performed in one behaviour.
MaxOps == 2

\* Ticks (times of day) per calendar day.
TicksPerDay == 2

Values == 1..MaxValue

----------------------------------------------------------------------------
(* Optional values *)

None == <<>>

Some(v) == <<v>>

----------------------------------------------------------------------------
(* Calendar *)

\* Days from 1970-01-01 to the civil date y-m-d (proleptic Gregorian), the
\* day number datetime.strptime(..).date() stands for.
DayNumber(y, m, d) ==
  LET yy  == IF m <= 2 THEN y - 1 ELSE y
      era == yy \div 400
      yoe == yy - era * 400
      mp  == IF m > 2 THEN m - 3 ELSE m + 9
      doy == (153 * mp + 2) \div 5 + d - 1
      doe == yoe * 365 + yoe \div 4 - yoe \div 100 + doy
  IN  era * 146097 + doe - 719468

\* datetime(y, m, d): midnight of the day.
Date(y, m, d) == DayNumber(y, m, d) * TicksPerDay

\* datetime.date() / strftime("%Y-%m-%d"): the calendar day of a timestamp.
DateOf(t) == t \div TicksPerDay

\* t - timedelta(days=n): same time of day, n days earlier.
MinusDays(t, n) == t - n * TicksPerDay

Abs(x) == IF x < 0 THEN -x ELSE x

----------------------------------------------------------------------------
(* Configuration and seed tables *)

Assets == {"gold", "usd_vnd", "bitcoin", "vn30", "land"}

\* HISTORY_PERIODS: label -> days ago, in configured order.
HISTORY_PERIODS ==
  << <<"1D", 1>>, <<"1W", 7>>, <<"1M", 30>>, <<"1Y", 365>>, <<"3Y", 1095>> >>

PeriodIdx == 1..Len(HISTORY_PERIODS)

PeriodLabel(i) == HISTORY_PERIODS[i][1]

PeriodDays(i) == HISTORY_PERIODS[i][2]

COINGECKO_MAX_DAYS == 365

\* The tables as written in the source: each row is <<year, month, day, value>>.
SJC_HISTORICAL_SEEDS_ROWS ==
  <<<<2023, 1, 15, 665>>, <<2023, 2, 10, 668>>, <<2023, 2, 12, 668>>,
    <<2023, 6, 1, 675>>, <<2023, 10, 1, 690>>, <<2024, 2, 10, 790>>,
    <<2024, 6, 1, 875>>, <<2024, 10, 1, 840>>, <<2025, 1, 1, 850>>>>

USD_VND_HISTORICAL_SEEDS_ROWS ==
  <<<<2023, 1, 15, 23850>>, <<2023, 2, 10, 23880>>, <<2023, 2, 13, 23880>>,
    <<2023, 3, 15, 23900>>, <<2023, 4, 15, 23920>>, <<2023, 5, 15, 23940>>,
    <<2023, 6, 1, 23950>>, <<2023, 7, 1, 24000>>, <<2023, 8, 1, 24150>>,
    <<2023, 9, 1, 24400>>, <<2023, 10, 1, 24650>>, <<2023, 11, 1, 24700>>,
    <<2023, 12, 1, 24750>>, <<2024, 1, 1, 24900>>, <<2024, 2, 10, 25100>>,
    <<2024, 3, 1, 25200>>, <<2024, 4, 1, 25400>>, <<2024, 5, 1, 25650>>,
    <<2024, 6, 1, 25850>>, <<2024, 7, 1, 25750>>, <<2024, 8, 1, 25650>>,
    <<2024, 9, 1, 25550>>, <<2024, 10, 1, 25500>>, <<2024, 11, 1, 25550>>,
    <<2024, 12, 1, 25650>>, <<2025, 1, 1, 25800>>, <<2025, 2, 1, 25850>>,
    <<2025, 2, 10, 25860>>, <<2025, 2, 14, 25855>>, <<2025, 3, 1, 25900>>,
    <<2025, 4, 1, 26000>>, <<2025, 5, 1, 26150>>, <<2025, 6, 1, 26300>>,
    <<2025, 7, 1, 26500>>, <<2025, 8, 1, 26700>>, <<2025, 9, 1, 26950>>,
    <<2025, 10, 1, 27200>>, <<2025, 10, 28, 27600>>, <<2025, 11, 15, 27650>>,
    <<2025, 12, 15, 27700>>, <<2026, 1, 1, 25790>>, <<2026, 1, 15, 25800>>,
    <<2026, 1, 28, 25805>>, <<2026, 2, 4, 25810>>, <<2026, 2, 10, 25813>>>>

BTC_VND_HISTORICAL_SEEDS_ROWS ==
  <<<<2022, 1, 15, 10100>>, <<2022, 2, 10, 10016>>, <<2022, 3, 1, 9900>>,
    <<2022, 4, 1, 9200>>, <<2022, 5, 1, 8300>>, <<2022, 6, 1, 6960>>,
    <<2022, 7, 1, 5300>>, <<2022, 8, 1, 5550>>, <<2022, 9, 1, 5000>>,
    <<2022, 10, 1, 4790>>, <<2022, 11, 1, 4850>>, <<2022, 12, 1, 4100>>,
    <<2023, 1, 1, 3930>>, <<2023, 2, 1, 5470>>, <<2023, 2, 10, 5300>>,
    <<2023, 2, 15, 5700>>, <<2023, 3, 1, 5400>>, <<2023, 4, 1, 6720>>,
    <<2023, 5, 1, 6480>>, <<2023, 6, 1, 6480>>, <<2023, 7, 1, 7200>>,
    <<2023, 8, 1, 6960>>, <<2023, 9, 1, 6480>>, <<2023, 10, 1, 6720>>,
    <<2023, 11, 1, 8400>>, <<2023, 12, 1, 10200>>, <<2024, 1, 1, 10680>>,
    <<2024, 2, 1, 10500>>, <<2024, 3, 1, 15500>>, <<2024, 4, 1, 17500>>,
    <<2024, 5, 1, 15000>>, <<2024, 6, 1, 17200>>, <<2024, 7, 1, 15750>>,
    <<2024, 8, 1, 16250>>, <<2024, 9, 1, 15000>>, <<2024, 10, 1, 15750>>,
    <<2024, 11, 1, 17500>>, <<2024, 12, 1, 24000>>, <<2025, 1, 1, 24300>>,
    <<2025, 2, 1, 24750>>>>

LAND_HISTORICAL_SEEDS_ROWS ==
  <<<<2023, 2, 13, 2100>>, <<2023, 6, 1, 2150>>, <<2023, 10, 1, 2200>>,
    <<2024, 2, 10, 2250>>, <<2024, 6, 1, 2300>>, <<2024, 10, 1, 2350>>,
    <<2025, 2, 14, 2400>>, <<2025, 6, 1, 2450>>, <<2025, 10, 1, 2500>>,
    <<2026, 1, 15, 2550>>>>

VN30_HISTORICAL_SEEDS_ROWS ==
  <<<<2023, 1, 15, 108050>>, <<2023, 2, 10, 108736>>, <<2023, 2, 12, 108736>>,
    <<2023, 3, 1, 109500>>, <<2023, 4, 1, 110200>>, <<2023, 5, 1, 111000>>,
    <<2023, 6, 1, 112000>>, <<2023, 7, 1, 113500>>, <<2023, 8, 1, 114500>>,
    <<2023, 9, 1, 115000>>, <<2023, 10, 1, 116500>>, <<2023, 11, 1, 118000>>,
    <<2023, 12, 1, 120000>>, <<2024, 1, 1, 121000>>, <<2024, 2, 10, 122500>>,
    <<2024, 3, 1, 124000>>, <<2024, 4, 1, 125500>>, <<2024, 5, 1, 127000>>,
    <<2024, 6, 1, 128500>>, <<2024, 7, 1, 130000>>, <<2024, 8, 1, 132000>>,
    <<2024, 9, 1, 134000>>, <<2024, 10, 1, 136000>>, <<2024, 11, 1, 138500>>,
    <<2024, 12, 1, 140000>>, <<2025, 1, 1, 142000>>, <<2025, 2, 10, 133401>>,
    <<2025, 2, 14, 133401>>, <<2025, 3, 1, 145000>>, <<2025, 4, 1, 148000>>,
    <<2025, 5, 1, 151000>>, <<2025, 6, 1, 154000>>, <<2025, 7, 1, 157000>>,
    <<2025, 8, 1, 160000>>, <<2025, 9, 1, 165000>>, <<2025, 10, 1, 170000>>,
    <<2025, 11, 1, 175000>>, <<2025, 12, 1, 180000>>, <<2026, 1, 1, 185000>>,
    <<2026, 2, 10, 195000>>>>

\* strptime(date_str, "%Y-%m-%d") of every row: <<calendar day, value>>.
Dated(rows) == [i \in 1..Len(rows) |-> <<DayNumber(rows[i][1], rows[i][2], rows[i][3]), rows[i][4]>>]

SJC_HISTORICAL_SEEDS == Dated(SJC_HISTORICAL_SEEDS_ROWS)

USD_VND_HISTORICAL_SEEDS == Dated(USD_VND_HISTORICAL_SEEDS_ROWS)

BTC_VND_HISTORICAL_SEEDS == Dated(BTC_VND_HISTORICAL_SEEDS_ROWS)

LAND_HISTORICAL_SEEDS == Dated(LAND_HISTORICAL_SEEDS_ROWS)

VN30_HISTORICAL_SEEDS == Dated(VN30_HISTORICAL_SEEDS_ROWS)

\* A seed row as (calendar day of strptime(date_str, "%Y-%m-%d"), value).
SeedDay(s) == s[1]

SeedValue(s) == s[2]

----------------------------------------------------------------------------
(* Local history store: asset key -> calendar day -> value *)

MAX_LOOKUP_TOLERANCE_DAYS == 3

EmptyHistory == <<>>

\* _load_history on a missing, empty or corrupt file.
EmptyStore == [a \in Assets |-> EmptyHistory]

\* Variant: an existing entry of the day is kept (first write wins).
UpsertKeepFirst(h, day, v) ==
  [d \in (DOMAIN h) \cup {day} |-> IF d \in DOMAIN h THEN h[d] ELSE v]

\* The upsert of one asset's day -> value map.
Upsert(h, day, v) ==
  [d \in (DOMAIN h) \cup {day} |-> IF d = day THEN v ELSE h[d]]

\* Variant: entries are keyed by the full timestamp, not its calendar day.
record_snapshot_by_time(st, a, v, t) ==
  [st EXCEPT ![a] = Upsert(st[a], t, v)]

\* record_snapshot(asset, value, timestamp): upsert the timestamp's day.
record_snapshot(st, a, v, t) ==
  [st EXCEPT ![a] = Upsert(st[a], DateOf(t), v)]

DayDistance(d, t) == Abs(d - DateOf(t))

\* Variant: the tolerance is measured on the wall-clock difference between
\* the entry's midnight and t, not on calendar days.
DaysInToleranceWallClock(h, t) ==
  {d \in DOMAIN h :
     Abs(d * TicksPerDay - t) <= MAX_LOOKUP_TOLERANCE_DAYS * TicksPerDay}

\* The stored days of one asset within the tolerance of t's calendar day.
DaysInTolerance(h, t) ==
  {d \in (DateOf(t) - MAX_LOOKUP_TOLERANCE_DAYS)..(DateOf(t) + MAX_LOOKUP_TOLERANCE_DAYS) :
     d \in DOMAIN h}

\* Those of them at minimal calendar-day distance from t.
NearestDays(h, t) ==
  LET near == DaysInTolerance(h, t)
  IN  {d \in near : \A e \in near : DayDistance(d, t) <= DayDistance(e, t)}

\* get_value_at(asset, target): every value the lookup may return.  The
\* value of a stored entry at minimal day distance, when that distance is
\* within the tolerance; None otherwise.  Which of two equidistant entries
\* is returned is left open, so both are possible results.
get_value_at(st, a, t) ==
  LET nearest == NearestDays(st[a], t)
  IN  IF nearest = {} THEN {None} ELSE {Some(st[a][d]) : d \in nearest}

\* get_all_entries(asset): the stored entries of one asset.
get_all_entries(st, a) == {<<d, st[a][d]>> : d \in DOMAIN st[a]}

----------------------------------------------------------------------------
(* HistoryRepository: change computation and lookups *)

\* Decimal.quantize(Decimal("0.01")) of num/den, in hundredths, rounding
\* half to even (the decimal context's default); den > 0.
QuantizeHundredths(num, den) ==
  LET a  == num * 100
      q1 == a \div den
      r1 == a % den
      b  == r1 * 100
      q2 == b \div den
      r2 == b % den
      q  == q1 * 100 + q2
  IN  IF 2 * r2 > den THEN q + 1
      ELSE IF 2 * r2 = den /\ q % 2 = 1 THEN q + 1
      ELSE q

\* Variant: the quotient is cut to two decimal places instead of rounded.
compute_change_percent_truncated(old_value, new_value) ==
  IF old_value = 0 THEN 0
  ELSE ((new_value - old_value) * 10000) \div old_value

\* _compute_change_percent(old, new), in hundredths of a percent.
compute_change_percent(old_value, new_value) ==
  IF old_value = 0 THEN 0
  ELSE IF old_value > 0
    THEN QuantizeHundredths(new_value - old_value, old_value)
    ELSE QuantizeHundredths(old_value - new_value, -old_value)

\* Variant: a percentage is always reported (against 0 when no old value
\* was resolved).
HistoricalChangeAlwaysPercent(label, current_value, old) ==
  [period         |-> label,
   new_value      |-> current_value,
   old_value      |-> old,
   change_percent |-> IF old # None
                        THEN Some(compute_change_percent(old[1], current_value))
                        ELSE Some(0)]

\* HistoricalChange(period=label, new_value=current) with old_value and
\* change_percent set together when an old value was resolved.
HistoricalChange(label, current_value, old) ==
  [period         |-> label,
   new_value      |-> current_value,
   old_value      |-> old,
   change_percent |-> IF old # None
                        THEN Some(compute_change_percent(old[1], current_value))
                        ELSE None]

\* The first probe (a day offset from the target day) whose day is a key
\* of rates, as an optional value.
RECURSIVE FirstHit(_, _, _, _)
FirstHit(rates, day, probes, i) ==
  IF i > Len(probes) THEN None
  ELSE IF (day + probes[i]) \in DOMAIN rates THEN Some(rates[day + probes[i]])
  ELSE FirstHit(rates, day, probes, i + 1)

\* for offset in range(4): for sign in (0, 1, -1): target + sign * offset
ChogiaProbes ==
  [i \in 1..12 |-> LET offset == (i - 1) \div 3
                       sign   == <<0, 1, -1>>[((i - 1) % 3) + 1]
                   IN  sign * offset]

\* _find_chogia_rate(rates, target): rates keyed by date string.
find_chogia_rate(rates, target) ==
  FirstHit(rates, DateOf(target), ChogiaProbes, 1)

\* Variant: the earlier day is probed before the later one.
ClosestProbesPastFirst ==
  [i \in 1..8 |-> LET offset == (i - 1) \div 2
                  IN  IF i % 2 = 1 THEN -offset ELSE offset]

\* for offset in range(4): target_day + offset, then target_day - offset
ClosestProbes ==
  [i \in 1..8 |-> LET offset == (i - 1) \div 2
                  IN  IF i % 2 = 1 THEN offset ELSE -offset]

\* _find_closest_price(day_prices, target): prices keyed by unix day.
find_closest_price(day_prices, target) ==
  FirstHit(day_prices, DateOf(target), ClosestProbes, 1)

DEFAULT_MAX_DELTA_DAYS == 20

SEED_3Y_MAX_DELTA_DAYS == 45

\* Variant: a later row at the same distance replaces the best so far.
RECURSIVE SeedScanLastWins(_, _, _, _, _, _)
SeedScanLastWins(seeds, target_day, max_delta_days, i, best_delta, best_value) ==
  IF i > Len(seeds) THEN best_value
  ELSE
    LET delta_days == Abs(SeedDay(seeds[i]) - target_day)
    IN  IF delta_days > max_delta_days
          THEN SeedScanLastWins(seeds, target_day, max_delta_days, i + 1,
                                best_delta, best_value)
        ELSE IF best_delta = None \/ delta_days <= best_delta[1]
          THEN SeedScanLastWins(seeds, target_day, max_delta_days, i + 1,
                                Some(delta_days), Some(SeedValue(seeds[i])))
        ELSE SeedScanLastWins(seeds, target_day, max_delta_days, i + 1,
                              best_delta, best_value)

\* The loop of _find_seed_rate from row i on, with the best so far.
RECURSIVE SeedScan(_, _, _, _, _, _)
SeedScan(seeds, target_day, max_delta_days, i, best_delta, best_value) ==
  IF i > Len(seeds) THEN best_value
  ELSE
    LET delta_days == Abs(SeedDay(seeds[i]) - target_day)
    IN  IF delta_days > max_delta_days
          THEN SeedScan(seeds, target_day, max_delta_days, i + 1,
                        best_delta, best_value)
        ELSE IF best_delta = None \/ delta_days < best_delta[1]
          THEN SeedScan(seeds, target_day, max_delta_days, i + 1,
                        Some(delta_days), Some(SeedValue(seeds[i])))
        ELSE SeedScan(seeds, target_day, max_delta_days, i + 1,
                      best_delta, best_value)

\* _find_seed_rate(seeds, target, max_delta_days)
find_seed_rate(seeds, target, max_delta_days) ==
  SeedScan(seeds, DateOf(target), max_delta_days, 1, None, None)

----------------------------------------------------------------------------
(* Seeding and backfill *)

\* for date_str, value in seeds: record_snapshot(asset, value, strptime(date_str))
RECURSIVE SeedAll(_, _, _, _)
SeedAll(st, a, seeds, i) ==
  IF i > Len(seeds) THEN st
  ELSE SeedAll(record_snapshot(st, a, SeedValue(seeds[i]),
                               SeedDay(seeds[i]) * TicksPerDay),
               a, seeds, i + 1)

seed_historical_gold(st) == SeedAll(st, "gold", SJC_HISTORICAL_SEEDS, 1)

seed_historical_usd_vnd(st) == SeedAll(st, "usd_vnd", USD_VND_HISTORICAL_SEEDS, 1)

seed_historical_bitcoin(st) == SeedAll(st, "bitcoin", BTC_VND_HISTORICAL_SEEDS, 1)

seed_historical_land(st) == SeedAll(st, "land", LAND_HISTORICAL_SEEDS, 1)

\* As SeedAll, but a seed is skipped when get_value_at already answers for
\* its date.
RECURSIVE SeedMissing(_, _, _, _)
SeedMissing(st, a, seeds, i) ==
  IF i > Len(seeds) THEN st
  ELSE
    LET dt == SeedDay(seeds[i]) * TicksPerDay
    IN  IF get_value_at(st, a, dt) # {None}
          THEN SeedMissing(st, a, seeds, i + 1)
          ELSE SeedMissing(record_snapshot(st, a, SeedValue(seeds[i]), dt),
                           a, seeds, i + 1)

seed_historical_vn30(st) == SeedMissing(st, "vn30", VN30_HISTORICAL_SEEDS, 1)

\* for key, value in rates.items(): record_snapshot(asset, value, date of key)
RECURSIVE Backfill(_, _, _, _)
Backfill(st, a, rates, keys) ==
  IF keys = {} THEN st
  ELSE
    LET k == CHOOSE x \in keys : TRUE
    IN  Backfill(record_snapshot(st, a, rates[k], k * TicksPerDay),
                 a, rates, keys \ {k})

backfill_gold_history(st, rates) == Backfill(st, "gold", rates, DOMAIN rates)

backfill_usd_vnd_history(st, rates) == Backfill(st, "usd_vnd", rates, DOMAIN rates)

backfill_bitcoin_history(st, day_prices) ==
  Backfill(st, "bitcoin", day_prices, DOMAIN day_prices)

----------------------------------------------------------------------------
(* Outcomes of one live history fetch *)

\* The fetch returned a dict (possibly empty).
Ok(rates) == [kind |-> "ok", rates |-> rates]

\* The fetch raised RequestException, ValueError or KeyError (caught).
Failed == [kind |-> "error", rates |-> <<>>]

\* The fetch raised any other exception (e.g. decimal.InvalidOperation from
\* Decimal(sell_str), TypeError from a null timestamp): not caught.
Raised == [kind |-> "raise", rates |-> <<>>]

\* The source was not contacted.
Skipped == [kind |-> "skipped", rates |-> <<>>]

\* The Optional[Dict] the try block leaves behind.
RatesOf(outcome) == IF outcome.kind = "ok" THEN Some(outcome.rates) ELSE None

----------------------------------------------------------------------------
(* Per-period resolution of the old value.  Each operator yields the set  *)
(* of values the code may compute (more than one only when get_value_at   *)
(* has two equidistant entries to choose from).                           *)

\* Variant: the local store is consulted before the live fetch results.
gold_old_value_store_first(st, webgia_rates, chogia_rates, i, now) ==
  LET target_date == MinusDays(now, PeriodDays(i))
      v1 == IF webgia_rates # None
              THEN find_chogia_rate(webgia_rates[1], target_date) ELSE None
      v2 == IF v1 = None /\ chogia_rates # None
              THEN find_chogia_rate(chogia_rates[1], target_date) ELSE v1
  IN  {IF v3 # None THEN v3
       ELSE IF v2 # None THEN v2
       ELSE IF PeriodLabel(i) = "3Y"
         THEN find_seed_rate(SJC_HISTORICAL_SEEDS, target_date,
                             SEED_3Y_MAX_DELTA_DAYS)
         ELSE None : v3 \in get_value_at(st, "gold", target_date)}

\* The period loop body of _gold_changes.
gold_old_value(st, webgia_rates, chogia_rates, i, now) ==
  LET target_date == MinusDays(now, PeriodDays(i))
      v1 == IF webgia_rates # None
              THEN find_chogia_rate(webgia_rates[1], target_date) ELSE None
      v2 == IF v1 = None /\ chogia_rates # None
              THEN find_chogia_rate(chogia_rates[1], target_date) ELSE v1
  IN  IF v2 # None THEN {v2}
      ELSE {IF v3 = None /\ PeriodLabel(i) = "3Y"
              THEN find_seed_rate(SJC_HISTORICAL_SEEDS, target_date,
                                  SEED_3Y_MAX_DELTA_DAYS)
              ELSE v3 : v3 \in get_value_at(st, "gold", target_date)}

\* The period loop body of _usd_vnd_changes.
usd_vnd_old_value(st, chogia_rates, i, now) ==
  LET target_date == MinusDays(now, PeriodDays(i))
      v1 == IF chogia_rates # None
              THEN find_chogia_rate(chogia_rates[1], target_date) ELSE None
  IN  IF v1 # None THEN {v1}
      ELSE {IF v2 = None
              THEN find_seed_rate(USD_VND_HISTORICAL_SEEDS, target_date,
                                  DEFAULT_MAX_DELTA_DAYS)
              ELSE v2 : v2 \in get_value_at(st, "usd_vnd", target_date)}

\* The period loop body of _bitcoin_changes.
bitcoin_old_value(st, price_history, i, now) ==
  LET target_date == MinusDays(now, PeriodDays(i))
      v1 == IF price_history # None /\ PeriodDays(i) <= COINGECKO_MAX_DAYS
              THEN find_closest_price(price_history[1], target_date) ELSE None
  IN  IF v1 # None THEN {v1}
      ELSE {IF v2 = None /\ PeriodLabel(i) = "3Y"
              THEN find_seed_rate(BTC_VND_HISTORICAL_SEEDS, target_date,
                                  SEED_3Y_MAX_DELTA_DAYS)
              ELSE v2 : v2 \in get_value_at(st, "bitcoin", target_date)}

\* The period loop body of _vn30_changes.
vn30_old_value(st, close_history, i, now) ==
  LET target_date == MinusDays(now, PeriodDays(i))
      v1 == IF close_history # None
              THEN find_closest_price(close_history[1], target_date) ELSE None
  IN  IF v1 # None THEN {v1}
      ELSE {IF v2 = None /\ PeriodLabel(i) = "3Y"
              THEN find_seed_rate(VN30_HISTORICAL_SEEDS, target_date,
                                  SEED_3Y_MAX_DELTA_DAYS)
              ELSE v2 : v2 \in get_value_at(st, "vn30", target_date)}

\* The period loop body of _land_changes.
land_old_value(st, i, now) ==
  LET target_date == MinusDays(now, PeriodDays(i))
  IN  {IF v1 = None
         THEN find_seed_rate(LAND_HISTORICAL_SEEDS, target_date,
                             SEED_3Y_MAX_DELTA_DAYS)
         ELSE v1 : v1 \in get_value_at(st, "land", target_date)}

\* The sequences whose i-th element is drawn from sets[i].
RECURSIVE SeqProduct(_, _)
SeqProduct(sets, n) ==
  IF n = 0 THEN {<<>>}
  ELSE {Append(s, x) : s \in SeqProduct(sets, n - 1), x \in sets[n]}

\* changes: one HistoricalChange per configured period, in configured
\* order, given the possible old values of each period.
ChangesFrom(olds, current_value) ==
  SeqProduct([i \in PeriodIdx |->
               {HistoricalChange(PeriodLabel(i), current_value, o) : o \in olds[i]}],
            Len(HISTORY_PERIODS))

----------------------------------------------------------------------------
(* The aggregation calls.  Each yields the store the call leaves behind,   *)
(* the store as it stood when the live fetch was issued (seeded), whether  *)
(* the call returned or raised, and the change lists it may return.        *)

CallResult(st, seeded, raised, results) ==
  [store   |-> st,
   seeded  |-> seeded,
   status  |-> IF raised THEN "raised" ELSE "returned",
   results |-> IF raised THEN {<<>>} ELSE results]

NonEmpty(rates) == rates # None /\ DOMAIN rates[1] # {}

\* HistoryRepository._gold_changes(current_value) at time now; chogia is
\* Skipped unless webgia failed with a caught exception.
gold_changes(st, current_value, now, webgia, chogia) ==
  LET st1          == seed_historical_gold(st)
      webgia_rates == RatesOf(webgia)
      st2          == IF NonEmpty(webgia_rates)
                        THEN backfill_gold_history(st1, webgia_rates[1]) ELSE st1
      chogia_rates == RatesOf(chogia)
      st3          == IF NonEmpty(chogia_rates)
                        THEN backfill_gold_history(st2, chogia_rates[1]) ELSE st2
  IN  CallResult(st3, st1["gold"],
                 webgia.kind = "raise" \/ chogia.kind = "raise",
                 ChangesFrom([i \in PeriodIdx |->
                                gold_old_value(st3, webgia_rates, chogia_rates, i, now)],
                             current_value))

\* HistoryRepository._usd_vnd_changes(current_value) at time now.
usd_vnd_changes(st, current_value, now, chogia) ==
  LET st1          == seed_historical_usd_vnd(st)
      chogia_rates == RatesOf(chogia)
      st2          == IF NonEmpty(chogia_rates)
                        THEN backfill_usd_vnd_history(st1, chogia_rates[1]) ELSE st1
  IN  CallResult(st2, st1["usd_vnd"], chogia.kind = "raise",
                 ChangesFrom([i \in PeriodIdx |->
                                usd_vnd_old_value(st2, chogia_rates, i, now)],
                             current_value))

\* HistoryRepository._bitcoin_changes(current_value) at time now.
bitcoin_changes(st, current_value, now, coingecko) ==
  LET st1           == seed_historical_bitcoin(st)
      price_history == RatesOf(coingecko)
      st2           == IF NonEmpty(price_history)
                         THEN backfill_bitcoin_history(st1, price_history[1]) ELSE st1
  IN  CallResult(st2, st1["bitcoin"], coingecko.kind = "raise",
                 ChangesFrom([i \in PeriodIdx |->
                                bitcoin_old_value(st2, price_history, i, now)],
                             current_value))

\* HistoryRepository._vn30_changes(current_value) at time now.
vn30_changes(st, current_value, now, vps) ==
  LET st1           == seed_historical_vn30(st)
      close_history == RatesOf(vps)
  IN  CallResult(st1, st1["vn30"], vps.kind = "raise",
                 ChangesFrom([i \in PeriodIdx |->
                                vn30_old_value(st1, close_history, i, now)],
                             current_value))

\* HistoryRepository._land_changes(current_value) at time now.
land_changes(st, current_value, now) ==
  LET st1 == seed_historical_land(st)
  IN  CallResult(st1, st1["land"], FALSE,
                 ChangesFrom([i \in PeriodIdx |-> land_old_value(st1, i, now)],
                             current_value))

----------------------------------------------------------------------------
(* Inputs *)

\* The moments at which a session runs (datetime.now()).
Clocks == {Date(2026, 2, 12) + 1, Date(2026, 2, 21) + 1, Date(2029, 3, 9) + 1}

\* Timestamps of snapshots recorded ahead of an aggregation call.
RecordTimes(now) == {MinusDays(now, 1095), MinusDays(now, 1096) - 1}

\* Days a live source may report.
LiveDays(now) == {DateOf(MinusDays(now, 1095)) + 1, DateOf(MinusDays(now, 7)) - 3}

LiveDicts(now) ==
  {[d \in S |-> IF d = DateOf(MinusDays(now, 7)) - 3 THEN MaxValue ELSE 1] :
     S \in SUBSET LiveDays(now)}

FetchOutcomes(now) == {Failed, Raised} \cup {Ok(r) : r \in LiveDicts(now)}

\* The current values of a session (the fixture of the repository tests).
CurrentValue(a) ==
  CASE a = "gold"    -> 1760
    [] a = "usd_vnd" -> 25800
    [] a = "bitcoin" -> 26000
    [] a = "vn30"    -> 130000
    [] a = "land"    -> 2400

----------------------------------------------------------------------------
(* State *)

NoCall ==
  [op |-> "none", asset |-> "", at |-> 0, value |-> 0, status |-> "",
   primary |-> Skipped, secondary |-> Skipped,
   before |-> EmptyHistory, seeded |-> EmptyHistory, changes |-> <<>>,
   got |-> None]

Init ==
  /\ store = EmptyStore
  /\ call = NoCall
  /\ clock \in Clocks
  /\ ops = 0
  /\ recorded = <<>>

\* record_snapshot(asset, value, timestamp)
RecordSnapshot(a, v, t) ==
  /\ ops < MaxOps
  /\ store' = record_snapshot(store, a, v, t)
  /\ call' = [NoCall EXCEPT !.op = "record_snapshot", !.asset = a, !.at = t,
                            !.value = v, !.status = "returned",
                            !.before = store[a]]
  /\ ops' = ops + 1
  /\ UNCHANGED clock

\* get_value_at(asset, target)
GetValueAt(a, t) ==
  /\ \E r \in get_value_at(store, a, t) :
       call' = [NoCall EXCEPT !.op = "get_value_at", !.asset = a, !.at = t,
                              !.status = "returned", !.got = r]
  /\ UNCHANGED <<store, clock, ops, recorded>>

\* The effect of one aggregation call with result r.
Aggregated(a, current_value, primary, secondary, r) ==
  /\ ops < MaxOps
  /\ store' = r.store
  /\ \E changes \in r.results :
       call' = [NoCall EXCEPT !.op = "changes", !.asset = a, !.at = clock,
                              !.value = current_value, !.status = r.status,
                              !.primary = primary, !.secondary = secondary,
                              !.before = store[a], !.seeded = r.seeded,
                              !.changes = changes]
  /\ ops' = ops + 1
  /\ UNCHANGED <<clock, recorded>>

GoldChanges ==
  \E webgia \in FetchOutcomes(clock), chogia \in FetchOutcomes(clock) \cup {Skipped} :
    /\ (chogia = Skipped) <=> (webgia.kind # "error")
    /\ Aggregated("gold", CurrentValue("gold"), webgia, chogia,
                  gold_changes(store, CurrentValue("gold"), clock, webgia, chogia))

UsdVndChanges ==
  \E chogia \in FetchOutcomes(clock) :
    Aggregated("usd_vnd", CurrentValue("usd_vnd"), chogia, Skipped,
               usd_vnd_changes(store, CurrentValue("usd_vnd"), clock, chogia))

BitcoinChanges ==
  \E coingecko \in FetchOutcomes(clock) :
    Aggregated("bitcoin", CurrentValue("bitcoin"), coingecko, Skipped,
               bitcoin_changes(store, CurrentValue("bitcoin"), clock, coingecko))

Vn30Changes ==
  \E vps \in FetchOutcomes(clock) :
    Aggregated("vn30", CurrentValue("vn30"), vps, Skipped,
               vn30_changes(store, CurrentValue("vn30"), clock, vps))

LandChanges ==
  Aggregated("land", CurrentValue("land"), Skipped, Skipped,
             land_changes(store, CurrentValue("land"), clock))

Record ==
  \E a \in Assets, v \in {1, MaxValue}, t \in RecordTimes(clock) :
    RecordSnapshot(a, v, t) /\ UNCHANGED recorded

Next ==
  \/ Record
  \/ GoldChanges
  \/ UsdVndChanges
  \/ BitcoinChanges
  \/ Vn30Changes
  \/ LandChanges

Spec == Init /\ [][Next]_vars

----------------------------------------------------------------------------
(* The history store on its own: records and lookups on a few days *)

StoreAssets == {"gold", "bitcoin"}

StoreRecordDays == {0, 2}

StoreQueryDays == {0, 1, 3, 5, 6}

\* The first and the last moment of each of the days.
TimesOn(days) == {d * TicksPerDay + h : d \in days, h \in {0, TicksPerDay - 1}}

InitStore ==
  /\ store = EmptyStore
  /\ call = NoCall
  /\ clock = 0
  /\ ops = 0
  /\ recorded = <<>>

\* A record, remembered in the order of the calls.
StoreRecord ==
  \E a \in StoreAssets, v \in Values, t \in TimesOn(StoreRecordDays) :
    /\ RecordSnapshot(a, v, t)
    /\ recorded' = Append(recorded, <<a, t, v>>)

StoreLookup ==
  \E a \in StoreAssets, t \in TimesOn(StoreQueryDays) : GetValueAt(a, t)

NextStore == StoreRecord \/ StoreLookup

SpecStore == InitStore /\ [][NextStore]_vars

----------------------------------------------------------------------------
(* Properties of the history store (under SpecStore) *)

\* The positions of the records made for asset a on calendar day d.
RecordsOn(a, d) ==
  {k \in 1..Len(recorded) : recorded[k][1] = a /\ DateOf(recorded[k][2]) = d}

Last(S) == CHOOSE k \in S : \A j \in S : j <= k

\* C8: record(asset, v, t) followed immediately by get_value_at(asset, t)
\* returns exactly v, whatever the store held before.
C8_RecordThenGet ==
  call.op = "record_snapshot" =>
    get_value_at(store, call.asset, call.at) = {Some(call.value)}

\* A record that replaced a different value held for the same day.
C8_Witness ==
  /\ call.op = "record_snapshot"
  /\ DateOf(call.at) \in DOMAIN call.before
  /\ call.before[DateOf(call.at)] # call.value
  /\ get_value_at(store, call.asset, call.at) = {Some(call.value)}

\* C9: after any sequence of records the store holds exactly one entry for
\* every (asset, calendar day) recorded and none for any other day, and the
\* entry carries the value of the most recent record made for that day.
C9_OneEntryPerDay ==
  \A a \in Assets :
    /\ DOMAIN store[a] = {DateOf(recorded[k][2]) :
                            k \in {j \in 1..Len(recorded) : recorded[j][1] = a}}
    /\ \A d \in DOMAIN store[a] :
         /\ Cardinality({e \in get_all_entries(store, a) : e[1] = d}) = 1
         /\ store[a][d] = recorded[Last(RecordsOn(a, d))][3]

\* Two records of one asset at different times of the same calendar day,
\* with different values: one entry, holding the second value.
C9_Witness ==
  /\ Len(recorded) = 2
  /\ recorded[1][1] = recorded[2][1]
  /\ recorded[1][2] # recorded[2][2]
  /\ DateOf(recorded[1][2]) = DateOf(recorded[2][2])
  /\ recorded[1][3] # recorded[2][3]
  /\ get_all_entries(store, recorded[2][1])
       = {<<DateOf(recorded[2][2]), recorded[2][3]>>}

\* Calendar-day distance of a stored entry <<day, value>> from timestamp t.
EntryDistance(e, t) == Abs(e[1] - DateOf(t))

\* C10: get_value_at(asset, target) returns the value of an entry of that
\* asset at minimal calendar-day distance from the target when that distance
\* is at most 3, and None when the asset has no entry or its nearest entry
\* is more than 3 calendar days away; time of day and the entries of other
\* assets play no part.
C10_NearestWithinTolerance ==
  call.op = "get_value_at" =>
    LET entries == get_all_entries(store, call.asset)
        within  == {e \in entries : EntryDistance(e, call.at) <= 3}
    IN  IF within = {}
          THEN call.got = None
          ELSE \E e \in within :
                 /\ call.got = Some(e[2])
                 /\ \A f \in entries :
                      EntryDistance(e, call.at) <= EntryDistance(f, call.at)

\* The lookup of the spec's example: an entry recorded at day D 00:00 is
\* found by a query at day D+3 later in the day, while another asset holds
\* a nearer entry with another value.
C10_Witness ==
  /\ call.op = "get_value_at"
  /\ call.at = 3 * TicksPerDay + 1
  /\ DOMAIN store[call.asset] = {0}
  /\ \E b \in Assets \ {call.asset} :
       /\ 2 \in DOMAIN store[b]
       /\ store[b][2] # store[call.asset][0]
  /\ call.got = Some(store[call.asset][0])

----------------------------------------------------------------------------
(* Properties of the aggregator (under Spec) *)

\* The last operation was an aggregation call that returned its changes.
Returned == call.op = "changes" /\ call.status = "returned"

\* The seed table of an asset.
SeedsOf(a) ==
  CASE a = "gold"    -> SJC_HISTORICAL_SEEDS
    [] a = "usd_vnd" -> USD_VND_HISTORICAL_SEEDS
    [] a = "bitcoin" -> BTC_VND_HISTORICAL_SEEDS
    [] a = "vn30"    -> VN30_HISTORICAL_SEEDS
    [] a = "land"    -> LAND_HISTORICAL_SEEDS

\* The target date of period i in the last call.
TargetDate(i) == MinusDays(call.at, PeriodDays(i))

\* The index of the longest period.
Longest == CHOOSE i \in PeriodIdx : PeriodLabel(i) = "3Y"

\* What one fetched dict of the last call holds for period i.
LookupIn(outcome, i) ==
  IF outcome.kind # "ok" THEN None
  ELSE IF call.asset \in {"gold", "usd_vnd"}
    THEN find_chogia_rate(outcome.rates, TargetDate(i))
    ELSE find_closest_price(outcome.rates, TargetDate(i))

\* The live tier of the last call for period i: the primary source, then
\* the secondary; bitcoin's fetch covers COINGECKO_MAX_DAYS days only.
LiveTier(i) ==
  IF call.asset = "bitcoin" /\ PeriodDays(i) > COINGECKO_MAX_DAYS THEN None
  ELSE IF LookupIn(call.primary, i) # None THEN LookupIn(call.primary, i)
  ELSE LookupIn(call.secondary, i)

\* The store tier of the last call for period i (the store is not written
\* after the lookups).
StoreTier(i) == get_value_at(store, call.asset, TargetDate(i))

\* No live source of the last call delivered data.
LiveFailed ==
  /\ call.primary.kind \in {"error", "skipped"}
  /\ call.secondary.kind \in {"error", "skipped"}

\* The rows of a seed table within w calendar days of a day.
SeedsWithin(seeds, day, w) ==
  {k \in 1..Len(seeds) : Abs(SeedDay(seeds[k]) - day) <= w}

\* The value of the row at minimal distance from day among those within w
\* days, the earliest-listed on a tie; None when there is none.
NearestSeed(seeds, day, w) ==
  LET within == SeedsWithin(seeds, day, w)
      dist(k) == Abs(SeedDay(seeds[k]) - day)
  IN  IF within = {} THEN None
      ELSE Some(SeedValue(seeds[
             CHOOSE k \in within :
               \A j \in within : dist(k) < dist(j) \/ (dist(k) = dist(j) /\ k <= j)]))

\* C1: for every asset and period the old value comes from the first tier
\* that yields one, in the order live fetch result, local store, seed table:
\* a live match is used whatever the store holds, the store is used when the
\* live lookup yields nothing, and a seed value (or nothing) only when both
\* yield nothing.
C1_TierOrder ==
  Returned =>
    \A i \in PeriodIdx :
      LET old == call.changes[i].old_value
      IN  /\ LiveTier(i) # None => old = LiveTier(i)
          /\ (LiveTier(i) = None /\ StoreTier(i) # {None}) => old \in StoreTier(i)
          /\ (LiveTier(i) = None /\ StoreTier(i) = {None}) =>
               \/ old = None
               \/ \E k \in 1..Len(SeedsOf(call.asset)) :
                    old = Some(SeedValue(SeedsOf(call.asset)[k]))

\* A live match one day off the 3Y target is used although the store holds
\* an entry with another value on the target day itself.
C1_Witness ==
  /\ Returned
  /\ LiveTier(Longest) # None
  /\ DateOf(TargetDate(Longest)) \in DOMAIN store[call.asset]
  /\ Some(store[call.asset][DateOf(TargetDate(Longest))]) # LiveTier(Longest)
  /\ call.changes[Longest].old_value = LiveTier(Longest)

\* C2: every aggregation call, whatever the outcome of its live fetch,
\* returns exactly one HistoricalChange per configured period, in
\* configured order.
C2_OneChangePerPeriod ==
  call.op = "changes" =>
    /\ call.status = "returned"
    /\ Len(call.changes) = Len(HISTORY_PERIODS)
    /\ \A i \in PeriodIdx : call.changes[i].period = PeriodLabel(i)

\* C3: for every asset, a 1D, 1W or 1M period that neither the live fetch
\* result nor the local store resolves has no old_value and no
\* change_percent.
C3_ShortPeriodsNotSeeded ==
  Returned =>
    \A i \in PeriodIdx :
      (/\ PeriodLabel(i) \in {"1D", "1W", "1M"}
       /\ LiveTier(i) = None
       /\ StoreTier(i) = {None})
      => /\ call.changes[i].old_value = None
         /\ call.changes[i].change_percent = None

SeedWindow(a) == IF a = "usd_vnd" THEN 20 ELSE 45

C5_PercentIffOldValue ==
  Returned =>
    \A i \in PeriodIdx :
      LET c == call.changes[i]
      IN  /\ c.change_percent # None <=> c.old_value # None
          /\ c.new_value = call.value
          /\ c.old_value # None =>
               c.change_percent = Some(compute_change_percent(c.old_value[1], call.value))
          /\ (/\ LiveTier(i) = None
              /\ StoreTier(i) = {None}
              /\ NearestSeed(SeedsOf(call.asset), DateOf(TargetDate(i)), 45) = None)
             => c.old_value = None /\ c.change_percent = None

\* One call returns a change no tier resolved (both fields absent) next to
\* a change with an old value and its percentage.
C5_Witness ==
  /\ Returned
  /\ \E i, j \in PeriodIdx :
       /\ LiveTier(i) = None /\ StoreTier(i) = {None}
       /\ call.changes[i].old_value = None
       /\ call.changes[i].change_percent = None
       /\ call.changes[j].old_value # None
       /\ call.changes[j].change_percent # None
       /\ call.changes[j].new_value = CurrentValue(call.asset)

\* C6: for gold, usd_vnd, bitcoin and vn30, when a live history fetch of
\* the call succeeded, every (day, value) pair it retrieved is in the local
\* store when the call returns.
C6_LiveDataBackfilled ==
  (Returned /\ call.asset \in {"gold", "usd_vnd", "bitcoin", "vn30"}) =>
    \A outcome \in {call.primary, call.secondary} :
      outcome.kind = "ok" =>
        \A d \in DOMAIN outcome.rates :
          /\ d \in DOMAIN store[call.asset]
          /\ store[call.asset][d] = outcome.rates[d]

\* C7: at the moment the live fetch of an aggregation call is issued, the
\* store holds, for gold, usd_vnd and bitcoin, the seed value on every
\* seed's day, and for land and vn30 every entry that existed on a seed's
\* day before the call is unchanged.
C7_SeedingBeforeFetch ==
  call.op = "changes" =>
    \A k \in 1..Len(SeedsOf(call.asset)) :
      LET day == SeedDay(SeedsOf(call.asset)[k])
      IN  /\ call.asset \in {"gold", "usd_vnd", "bitcoin"} =>
               /\ day \in DOMAIN call.seeded
               /\ call.seeded[day] = SeedValue(SeedsOf(call.asset)[k])
          /\ (call.asset \in {"land", "vn30"} /\ day \in DOMAIN call.before) =>
               call.seeded[day] = call.before[day]


----------------------------------------------------------------------------
(* The history store over its backing file (under SpecFile).  In this      *)
(* specification the variable store holds the state of the file.           *)

\* The states of the backing file: absent, zero bytes, not parseable, or the
\* serialisation of a store.
FileMissing == [kind |-> "missing", data |-> EmptyStore]

FileEmpty == [kind |-> "empty", data |-> EmptyStore]

FileCorrupt == [kind |-> "corrupt", data |-> EmptyStore]

FileValid(st) == [kind |-> "valid", data |-> st]

\* Variant: the file is never read back; every load starts from the empty
\* store.
load_history_fresh(f) == [ok |-> TRUE, data |-> EmptyStore]

\* Variant: only an absent file is read as the empty store; an empty or
\* unparseable file makes the load fail.
load_history_strict(f) ==
  [ok   |-> f.kind \in {"valid", "missing"},
   data |-> IF f.kind = "valid" THEN f.data ELSE EmptyStore]

\* Load on demand: a missing, empty or corrupt file reads as the empty store.
load_history(f) ==
  [ok   |-> TRUE,
   data |-> IF f.kind = "valid" THEN f.data ELSE EmptyStore]

\* Save on write: the file holds the serialisation of st.
save_history(st) == FileValid(st)

FileCall(op, a, t, v, loaded) ==
  [NoCall EXCEPT !.op = op, !.asset = a, !.at = t, !.value = v,
                 !.status = IF loaded.ok THEN "returned" ELSE "raised",
                 !.before = store]

\* record_snapshot(asset, value, timestamp) on the file: load, upsert, save.
FileRecord ==
  \E a \in StoreAssets, v \in Values, t \in TimesOn(StoreRecordDays) :
    LET loaded == load_history(store)
    IN  /\ ops < MaxOps
        /\ store' = IF loaded.ok
                      THEN save_history(record_snapshot(loaded.data, a, v, t))
                      ELSE store
        /\ call' = FileCall("file_record", a, t, v, loaded)
        /\ ops' = ops + 1
        /\ UNCHANGED <<clock, recorded>>

\* get_value_at(asset, target) on the file.
FileGetValueAt ==
  \E a \in StoreAssets, t \in TimesOn(StoreQueryDays) :
    LET loaded == load_history(store)
    IN  /\ \E r \in get_value_at(loaded.data, a, t) :
             call' = [FileCall("file_get_value_at", a, t, 0, loaded)
                        EXCEPT !.got = IF loaded.ok THEN r ELSE None]
        /\ UNCHANGED <<store, clock, ops, recorded>>

\* get_all_entries(asset) on the file; the entries are kept in call.got.
FileGetAllEntries ==
  \E a \in StoreAssets :
    LET loaded == load_history(store)
    IN  /\ call' = [FileCall("file_get_all_entries", a, 0, 0, loaded)
                      EXCEPT !.got = IF loaded.ok
                                       THEN get_all_entries(loaded.data, a)
                                       ELSE {}]
        /\ UNCHANGED <<store, clock, ops, recorded>>

\* The environment removes, truncates or garbles the file.
FileDamaged ==
  /\ store.kind = "valid"
  /\ store' \in {FileMissing, FileEmpty, FileCorrupt}
  /\ call' = [NoCall EXCEPT !.op = "file_damaged", !.before = store]
  /\ UNCHANGED <<clock, ops, recorded>>

InitFile ==
  /\ store \in {FileMissing, FileEmpty, FileCorrupt}
  /\ call = NoCall
  /\ clock = 0
  /\ ops = 0
  /\ recorded = <<>>

NextFile == FileRecord \/ FileGetValueAt \/ FileGetAllEntries \/ FileDamaged

SpecFile == InitFile /\ [][NextFile]_vars

\* C11: on a missing, empty or corrupt backing file every store operation
\* returns (none fails) and behaves as on an empty store: get_value_at
\* yields None, the entry list is empty, and a record leaves a store from
\* which exactly the recorded entry is retrievable.
C11_UnreadableFileIsEmptyStore ==
  /\ call.op \in {"file_record", "file_get_value_at", "file_get_all_entries"}
       => call.status = "returned"
  /\ (call.op = "file_get_value_at" /\ call.before.kind # "valid")
       => call.got = None
  /\ (call.op = "file_get_all_entries" /\ call.before.kind # "valid")
       => call.got = {}
  /\ (call.op = "file_record" /\ call.before.kind # "valid")
       => /\ store.kind = "valid"
          /\ get_value_at(load_history(store).data, call.asset, call.at)
               = {Some(call.value)}
          /\ get_all_entries(load_history(store).data, call.asset)
               = {<<DateOf(call.at), call.value>>}
          /\ \A b \in Assets \ {call.asset} :
               get_all_entries(load_history(store).data, b) = {}

\* A record made on a corrupt file that had held entries before it was
\* garbled: the record succeeds and the store holds just the new entry.
C11_Witness ==
  /\ call.op = "file_record"
  /\ call.status = "returned"
  /\ call.before.kind = "corrupt"
  /\ ops = 2
  /\ get_all_entries(load_history(store).data, call.asset)
       = {<<DateOf(call.at), call.value>>}

----------------------------------------------------------------------------
(* Time-series export (under SpecSeries).  A date string "YYYY-MM-DD" is   *)
(* its day number (the strings order as the days do); a unix-day key of a  *)
(* bitcoin or vn30 fetch is the same day (process time zone at or east of  *)
(* UTC).  A series is a sequence of points <<date, value>>.                *)

\* Variant: a key keeps the value it was first assigned.
merged_items_first_wins(puts) ==
  LET first(k) == \A j \in 1..(k - 1) : puts[j][1] # puts[k][1]
      keys     == SelectSeq([k \in 1..Len(puts) |-> k], first)
  IN  [i \in 1..Len(keys) |-> puts[keys[i]]] \o <<>>

\* The items of the dict merged after the assignments merged[d] = v of
\* puts (a sequence of <<d, v>>), in insertion order: a key stands where it
\* was first assigned and holds the value it was last assigned.
merged_items(puts) ==
  LET first(k) == \A j \in 1..(k - 1) : puts[j][1] # puts[k][1]
      keys     == SelectSeq([k \in 1..Len(puts) |-> k], first)
  IN  [i \in 1..Len(keys) |->
         <<puts[keys[i]][1],
           puts[Last({k \in 1..Len(puts) : puts[k][1] = puts[keys[i]][1]})][2]>>]
        \o <<>>

\* for date_str, val in seeds: merged[date_str] = float(val)
SeedPuts(seeds) ==
  [k \in 1..Len(seeds) |-> <<SeedDay(seeds[k]), SeedValue(seeds[k])>>]

\* for d, v in rates.items(): merged[d] = float(v); the keys are taken in
\* ascending order.
ItemPuts(rates, keys) ==
  [i \in 1..Cardinality(keys) |->
     LET d == CHOOSE x \in keys : Cardinality({y \in keys : y < x}) = i - 1
     IN  <<d, rates[d]>>] \o <<>>

\* A fetch inside try / except Exception: its points when it returned,
\* nothing when it raised anything.
FetchedPuts(outcome) ==
  IF outcome.kind = "ok"
    THEN ItemPuts(outcome.rates, DOMAIN outcome.rates)
    ELSE <<>>

\* The order of Python lists [d, v].
PointLess(p, q) == p[1] < q[1] \/ (p[1] = q[1] /\ p[2] < q[2])

\* The number of points that a stable ascending sort places before
\* points[k]: the lesser ones, and the equal ones that came earlier.
SortRank(points) ==
  [k \in 1..Len(points) |->
     Cardinality({j \in 1..Len(points) :
                    \/ PointLess(points[j], points[k])
                    \/ points[j] = points[k] /\ j < k})] \o <<>>

\* Variant: the items are returned in the dict's insertion order.
unsorted(points) == points

\* sorted([d, v] for d, v in merged.items())
sorted(points) ==
  LET rank == SortRank(points)
  IN  [i \in 1..Len(points) |->
         points[CHOOSE k \in 1..Len(points) : rank[k] = i - 1]] \o <<>>

\* HistoryRepository._gold_timeseries()
gold_timeseries(webgia, chogia) ==
  sorted(merged_items(SeedPuts(SJC_HISTORICAL_SEEDS)
                        \o FetchedPuts(webgia) \o FetchedPuts(chogia)))

\* HistoryRepository._usd_vnd_timeseries()
usd_vnd_timeseries(chogia) ==
  sorted(merged_items(SeedPuts(USD_VND_HISTORICAL_SEEDS) \o FetchedPuts(chogia)))

\* HistoryRepository._bitcoin_timeseries()
bitcoin_timeseries(coingecko) ==
  sorted(merged_items(SeedPuts(BTC_VND_HISTORICAL_SEEDS) \o FetchedPuts(coingecko)))

\* HistoryRepository._vn30_timeseries()
vn30_timeseries(vps) ==
  sorted(merged_items(SeedPuts(VN30_HISTORICAL_SEEDS) \o FetchedPuts(vps)))

\* HistoryRepository._land_timeseries(): seeds, then the store's entries.
land_timeseries(st) ==
  sorted(merged_items(SeedPuts(LAND_HISTORICAL_SEEDS)
                        \o ItemPuts(st["land"], DOMAIN st["land"])))

\* The day of the last-listed seed anchor of an asset.
LastSeedDay(a) == SeedDay(SeedsOf(a)[Len(SeedsOf(a))])

\* What a live source of asset a may do during the export: fail, raise,
\* return nothing, or return points for two days without an anchor and for
\* the day of an anchor.
SeriesOutcomes(a, now) ==
  LET days == LiveDays(now) \cup {LastSeedDay(a)}
  IN  {Failed, Raised, Ok(<<>>),
       Ok([d \in days |-> IF d = LastSeedDay(a) THEN 1 ELSE MaxValue]),
       Ok([d \in days |-> MaxValue])}

\* One per-asset export; the series is kept in call.got.
Timeseries(a, primary, secondary, series) ==
  /\ ops < MaxOps
  /\ call' = [NoCall EXCEPT !.op = "timeseries", !.asset = a, !.at = clock,
                            !.status = "returned",
                            !.primary = primary, !.secondary = secondary,
                            !.got = series]
  /\ ops' = ops + 1
  /\ UNCHANGED <<store, clock, recorded>>

GoldTimeseries ==
  \E webgia \in SeriesOutcomes("gold", clock),
     chogia \in SeriesOutcomes("gold", clock) :
    Timeseries("gold", webgia, chogia, gold_timeseries(webgia, chogia))

UsdVndTimeseries ==
  \E chogia \in SeriesOutcomes("usd_vnd", clock) :
    Timeseries("usd_vnd", chogia, Skipped, usd_vnd_timeseries(chogia))

BitcoinTimeseries ==
  \E coingecko \in SeriesOutcomes("bitcoin", clock) :
    Timeseries("bitcoin", coingecko, Skipped, bitcoin_timeseries(coingecko))

Vn30Timeseries ==
  \E vps \in SeriesOutcomes("vn30", clock) :
    Timeseries("vn30", vps, Skipped, vn30_timeseries(vps))

LandTimeseries ==
  Timeseries("land", Skipped, Skipped, land_timeseries(store))

\* Snapshots recorded by earlier runs, for an asset with a live source and
\* for land, on days without an anchor and on the day of a land anchor.
SeriesRecord ==
  \E a \in {"usd_vnd", "land"}, v \in {1, MaxValue},
     t \in RecordTimes(clock) \cup {LastSeedDay("land") * TicksPerDay} :
    RecordSnapshot(a, v, t) /\ UNCHANGED recorded

NextSeries ==
  \/ SeriesRecord
  \/ GoldTimeseries
  \/ UsdVndTimeseries
  \/ BitcoinTimeseries
  \/ Vn30Timeseries
  \/ LandTimeseries

InitSeries ==
  /\ store = EmptyStore
  /\ call = NoCall
  /\ clock = Date(2026, 2, 12) + 1
  /\ ops = 0
  /\ recorded = <<>>

SpecSeries == InitSeries /\ [][NextSeries]_vars

\* The set of points of a series.
PointsOf(series) == {series[k] : k \in 1..Len(series)}

\* The seed layer of an asset as a map: the last-listed value of each day.
SeedLayer(a) ==
  LET seeds == SeedsOf(a)
      days  == {SeedDay(seeds[k]) : k \in 1..Len(seeds)}
  IN  [d \in days |->
         SeedValue(seeds[Last({k \in 1..Len(seeds) : SeedDay(seeds[k]) = d})])]

\* The live layer of the last export: the fetched points, the secondary
\* source over the primary.
LiveLayer ==
  LET p == call.primary.rates
      s == call.secondary.rates
  IN  [d \in (DOMAIN p) \cup (DOMAIN s) |-> IF d \in DOMAIN s THEN s[d] ELSE p[d]]

\* The store layer of an export: the recorded entries for land, nothing
\* for the assets whose export reads no store.
StoreLayer(a, st) == IF a = "land" THEN st["land"] ELSE <<>>

\* The points of the layers seed < kept < live merged by date, the highest
\* layer that has a date giving its value.
LayersMerged(seed, kept, live) ==
  {<<d, IF d \in DOMAIN live THEN live[d]
        ELSE IF d \in DOMAIN kept THEN kept[d]
        ELSE seed[d]>> :
     d \in (DOMAIN seed) \cup (DOMAIN kept) \cup (DOMAIN live)}

\* C12 (as stated): the exported series of every asset has a point for
\* exactly the dates of its seed anchors, its store entries and its freshly
\* fetched points, each with the value of the highest of the layers
\* seed < store < live that has the date.
C12_HighestLayerWins ==
  call.op = "timeseries" =>
    PointsOf(call.got) =
      LayersMerged(SeedLayer(call.asset), store[call.asset], LiveLayer)

\* C12 (amended): the exported series has a point for exactly the dates of
\* the layers its merge reads, seed anchors below live points for gold,
\* usd_vnd, bitcoin and vn30 and seed anchors below store entries for land,
\* each with the value of the highest layer that has the date.
C12_HighestReadLayerWins ==
  call.op = "timeseries" =>
    PointsOf(call.got) =
      LayersMerged(SeedLayer(call.asset), StoreLayer(call.asset, store),
                   LiveLayer)

\* A usd_vnd export after a snapshot on a day without an anchor: the live
\* point on the day of the last anchor replaced the anchor's value, and
\* the snapshot's day has no point.
C12_Witness ==
  /\ call.op = "timeseries" /\ call.asset = "usd_vnd"
  /\ call.primary.kind = "ok"
  /\ LastSeedDay("usd_vnd") \in DOMAIN call.primary.rates
  /\ <<LastSeedDay("usd_vnd"), 1>> \in PointsOf(call.got)
  /\ SeedLayer("usd_vnd")[LastSeedDay("usd_vnd")] # 1
  /\ \E d \in DOMAIN store["usd_vnd"] :
       /\ d \notin DOMAIN SeedLayer("usd_vnd")
       /\ \A k \in 1..Len(call.got) : call.got[k][1] # d

----------------------------------------------------------------------------
(* merge_current_into_timeseries (under SpecMerge).  Python lists are      *)
(* objects: store holds the heap, a sequence of lists addressed by their   *)
(* position, and a dict of series maps an asset to the address of its      *)
(* list.  today is the day number of the date key.                         *)

\* The assets in the order their keys are inserted.
AssetOrder == <<"gold", "usd_vnd", "bitcoin", "vn30", "land">>

\* The position of asset a among the keys D of a dict.
KeyIndex(D, a) ==
  LET pos(b) == CHOOSE i \in 1..Len(AssetOrder) : AssetOrder[i] = b
  IN  Cardinality({b \in D : pos(b) < pos(a)}) + 1

\* The i-th key of a dict with keys D.
KeyAt(D, i) == CHOOSE a \in D : KeyIndex(D, a) = i

\* Variant: the merged dict holds the input lists themselves, with the
\* future points removed in place.
filtered_in_place(heap, timeseries, today) ==
  [heap   |-> [r \in 1..Len(heap) |->
                 SelectSeq(heap[r], LAMBDA point : point[1] <= today)] \o <<>>,
   merged |-> timeseries]

\* merged = {asset: [point for point in points if point[0] <= today] ...}:
\* one new list per key.
filtered_copy(heap, timeseries, today) ==
  LET D == DOMAIN timeseries
  IN  [heap   |-> heap \o
                  [i \in 1..Cardinality(D) |->
                     SelectSeq(heap[timeseries[KeyAt(D, i)]],
                               LAMBDA point : point[1] <= today)],
       merged |-> [a \in D |-> Len(heap) + KeyIndex(D, a)]]

\* points.sort(key=lambda p: p[0]): ascending by date, points of one date
\* keeping their order.
sort_by_date(points) ==
  LET rank == [k \in 1..Len(points) |->
                 Cardinality({j \in 1..Len(points) :
                                \/ points[j][1] < points[k][1]
                                \/ points[j][1] = points[k][1] /\ j < k})]
               \o <<>>
  IN  [i \in 1..Len(points) |->
         points[CHOOSE k \in 1..Len(points) : rank[k] = i - 1]] \o <<>>

\* Variant: the point of today is appended whether or not the list has one.
upsert_append(m, asset_key, value, today) ==
  IF value = None THEN m
  ELSE LET has   == asset_key \in DOMAIN m.merged
           ref   == IF has THEN m.merged[asset_key] ELSE Len(m.heap) + 1
           heap1 == IF has THEN m.heap ELSE Append(m.heap, <<>>)
       IN  [heap   |-> [heap1 EXCEPT
                          ![ref] = sort_by_date(Append(heap1[ref],
                                                       <<today, value[1]>>))],
            merged |-> IF has THEN m.merged
                       ELSE m.merged @@ (asset_key :> ref)]

\* upsert(asset_key, value) on m = [heap, merged]: nothing for None;
\* otherwise the first point of today in merged[asset_key] (a new empty
\* list when the key is missing) is replaced, or the point is appended, and
\* the list is sorted in place.
upsert(m, asset_key, value, today) ==
  IF value = None THEN m
  ELSE LET point  == <<today, value[1]>>
           has    == asset_key \in DOMAIN m.merged
           ref    == IF has THEN m.merged[asset_key] ELSE Len(m.heap) + 1
           heap1  == IF has THEN m.heap ELSE Append(m.heap, <<>>)
           points == heap1[ref]
           hits   == {i \in 1..Len(points) : points[i][1] = today}
           put    == IF hits # {}
                       THEN [points EXCEPT
                               ![CHOOSE i \in hits : \A j \in hits : i <= j]
                                 = point]
                       ELSE Append(points, point)
       IN  [heap   |-> [heap1 EXCEPT ![ref] = sort_by_date(put)],
            merged |-> IF has THEN m.merged
                       ELSE m.merged @@ (asset_key :> ref)]

\* merge_current_into_timeseries(timeseries, data, today) on a heap; data
\* maps each of gold, usd_vnd, bitcoin, vn30 to its current value or None.
merge_current_into_timeseries(heap, timeseries, data, today) ==
  LET m0 == filtered_copy(heap, timeseries, today)
      m1 == upsert(m0, "gold", data["gold"], today)
      m2 == upsert(m1, "usd_vnd", data["usd_vnd"], today)
      m3 == upsert(m2, "bitcoin", data["bitcoin"], today)
  IN  upsert(m3, "vn30", data["vn30"], today)

\* The assets with a current value in DashboardData.
CurrentAssets == {"gold", "usd_vnd", "bitcoin", "vn30"}

\* Series with unique dates around today: empty; up to today; with a
\* future point and without today; today, an older and a future point.
\* The order of the points is not restricted.
SeriesMenu(today) ==
  {<<>>,
   <<<<today - 1, 1>>, <<today, 1>>>>,
   <<<<today + 1, 1>>, <<today - 1, 1>>>>,
   <<<<today, 1>>, <<today - 2, 1>>, <<today + 1, 1>>>>}

\* The time-series dicts handed to the merge: any keys, each with a series
\* of the menu.
SeriesDicts(today) ==
  UNION {[D -> SeriesMenu(today)] : D \in SUBSET Assets}

\* The current values: None (no data for the asset) or a positive value
\* that differs from the values of the series.
CurrentData == [CurrentAssets -> {None, Some(MaxValue)}]

\* fetch_timeseries returned: the lists of its dict are on the heap.
MergeFetched ==
  /\ call.op = "none"
  /\ \E series \in SeriesDicts(DateOf(clock)) :
       LET D == DOMAIN series
       IN  /\ store' = [i \in 1..Cardinality(D) |-> series[KeyAt(D, i)]]
           /\ call' = [op |-> "fetched",
                       timeseries |-> [a \in D |-> KeyIndex(D, a)]]
  /\ UNCHANGED <<clock, ops, recorded>>

\* timeseries = merge_current_into_timeseries(timeseries, data); the
\* lists the inputs held before the call are kept in call.given.
MergeCurrent ==
  /\ call.op = "fetched"
  /\ \E data \in CurrentData :
       LET today == DateOf(clock)
           m     == merge_current_into_timeseries(store, call.timeseries,
                                                  data, today)
       IN  /\ store' = m.heap
           /\ call' = [op |-> "merge", timeseries |-> call.timeseries,
                       given |-> [a \in DOMAIN call.timeseries |->
                                    store[call.timeseries[a]]],
                       data |-> data, today |-> today, merged |-> m.merged]
  /\ UNCHANGED <<clock, ops, recorded>>

NextMerge ==
  \/ MergeFetched
  \/ MergeCurrent

InitMerge ==
  /\ store = <<>>
  /\ call = NoCall
  /\ clock = Date(2026, 2, 14) + 1
  /\ ops = 0
  /\ recorded = <<>>

SpecMerge == InitMerge /\ [][NextMerge]_vars

\* The list of asset a in the merged dict.
MergedSeries(a) == store[call.merged[a]]

\* C14: after the merge, every asset with a current value has a series
\* that is ascending by date, ends with the point [today, current value]
\* and has exactly one point dated today.
C14_LastPointIsCurrent ==
  call.op = "merge" =>
    \A a \in CurrentAssets :
      call.data[a] # None =>
        /\ a \in DOMAIN call.merged
        /\ LET s == MergedSeries(a)
           IN  /\ \A k \in 1..(Len(s) - 1) : s[k][1] <= s[k + 1][1]
               /\ Len(s) >= 1
               /\ s[Len(s)] = <<call.today, call.data[a][1]>>
               /\ Cardinality({k \in 1..Len(s) : s[k][1] = call.today}) = 1

\* A merge where the gold series had a point of today with another value
\* (replaced), the usd_vnd series had none (appended after the older
\* point) and bitcoin had no series at all (a new list).
C14_Witness ==
  /\ call.op = "merge"
  /\ "gold" \in DOMAIN call.given
  /\ <<call.today, 1>> \in {call.given["gold"][k] :
                              k \in 1..Len(call.given["gold"])}
  /\ call.data["gold"] = Some(MaxValue)
  /\ "usd_vnd" \in DOMAIN call.given
  /\ call.given["usd_vnd"] = <<<<call.today + 1, 1>>, <<call.today - 1, 1>>>>
  /\ call.data["usd_vnd"] = Some(MaxValue)
  /\ MergedSeries("usd_vnd") =
       <<<<call.today - 1, 1>>, <<call.today, MaxValue>>>>
  /\ "bitcoin" \notin DOMAIN call.given
  /\ call.data["bitcoin"] = Some(MaxValue)
  /\ MergedSeries("bitcoin") = <<<<call.today, MaxValue>>>>

\* C15: after the merge no series has a point dated after today, every
\* input point dated before today is in the series of its asset, and the
\* input lists hold what they held before the call.
C15_FutureDroppedPastKept ==
  call.op = "merge" =>
    /\ \A a \in DOMAIN call.merged :
         \A k \in 1..Len(MergedSeries(a)) :
           MergedSeries(a)[k][1] <= call.today
    /\ \A a \in DOMAIN call.timeseries :
         /\ a \in DOMAIN call.merged
         /\ \A k \in 1..Len(call.given[a]) :
              call.given[a][k][1] < call.today =>
                \E j \in 1..Len(MergedSeries(a)) :
                  MergedSeries(a)[j] = call.given[a][k]
         /\ store[call.timeseries[a]] = call.given[a]

\* A merge of a gold series with an older point, a point of today and a
\* future point, with a current gold value, next to a land series (no
\* current value) with a future point.
C15_Witness ==
  /\ call.op = "merge"
  /\ "gold" \in DOMAIN call.given /\ "land" \in DOMAIN call.given
  /\ call.data["gold"] = Some(MaxValue)
  /\ call.given["gold"] =
       <<<<call.today, 1>>, <<call.today - 2, 1>>, <<call.today + 1, 1>>>>
  /\ MergedSeries("gold") =
       <<<<call.today - 2, 1>>, <<call.today, MaxValue>>>>
  /\ call.given["land"] = <<<<call.today + 1, 1>>, <<call.today - 1, 1>>>>
  /\ MergedSeries("land") = <<<<call.today - 1, 1>>>>

----------------------------------------------------------------------------
(* Payload health (under SpecHealth).  A payload is a record of its        *)
(* current-value blocks (a dict from key to block), its history and its    *)
(* timeseries (None when the key is absent, else Some(dict)).  A text is   *)
(* the sequence of its characters.                                         *)

REQUIRED_ASSETS == <<"gold", "usd_vnd", "bitcoin", "vn30">>

UpperCase ==
  <<"A", "B", "C", "D", "E", "F", "G", "H", "I", "J", "K", "L", "M", "N",
    "O", "P", "Q", "R", "S", "T", "U", "V", "W", "X", "Y", "Z">>

LowerCase ==
  <<"a", "b", "c", "d", "e", "f", "g", "h", "i", "j", "k", "l", "m", "n",
    "o", "p", "q", "r", "s", "t", "u", "v", "w", "x", "y", "z">>

\* The prefix that marks a hardcoded fallback source.
FALLBACK_PREFIX == <<"f", "a", "l", "l", "b", "a", "c", "k">>

\* Source labels.
LabelVPS == <<"V", "P", "S">>

LabelFallbackScraping ==
  <<"F", "a", "l", "l", "b", "a", "c", "k", " ", "(", "S", "c", "r", "a",
    "p", "i", "n", "g", " ", "F", "a", "i", "l", "e", "d", ")">>

LabelFallbackLower == <<"f", "a", "l", "l", "b", "a", "c", "k">>

LabelFallbackUpper == <<"F", "A", "L", "L", "B", "A", "C", "K">>

LabelNoFallback == <<"N", "o", " ", "f", "a", "l", "l", "b", "a", "c", "k">>

LabelDOJI == <<"D", "O", "J", "I">>

LabelChogia == <<"c", "h", "o", "g", "i", "a", ".", "v", "n">>

LabelCoinMarketCap ==
  <<"C", "o", "i", "n", "M", "a", "r", "k", "e", "t", "C", "a", "p">>

LabelLand == <<"l", "a", "n", "d">>

\* Variant: the text is taken as it is.
not_lowered(text) == text

\* str.lower()
lower(text) ==
  [i \in 1..Len(text) |->
     IF \E k \in 1..Len(UpperCase) : UpperCase[k] = text[i]
       THEN LowerCase[CHOOSE k \in 1..Len(UpperCase) : UpperCase[k] = text[i]]
       ELSE text[i]]

\* str.startswith(prefix)
startswith(text, prefix) ==
  /\ Len(text) >= Len(prefix)
  /\ SubSeq(text, 1, Len(prefix)) = prefix

\* The dict holding the keys of opts whose value is not None.
DictOf(opts) ==
  [k \in {x \in DOMAIN opts : opts[x] # None} |-> opts[k][1]]

\* current.get(field) of a block: None for a missing field or a null.
BlockGet(block, field) ==
  IF field \in DOMAIN block THEN block[field] ELSE None

\* str(current.get('source') or '')
SourceText(block) ==
  IF BlockGet(block, "source") = None THEN <<>>
  ELSE BlockGet(block, "source")[1]

\* payload.get('history', {}) and payload.get('timeseries', {})
HistoryOf(payload) ==
  IF payload.history = None THEN <<>> ELSE payload.history[1]

TimeseriesOf(payload) ==
  IF payload.timeseries = None THEN <<>> ELSE payload.timeseries[1]

\* Variant: a vn30 block with a fallback source or without a series is
\* severe as well.
AssetSevereOnFallback(payload, asset) ==
  \/ asset \notin DOMAIN payload.current
  \/ /\ asset = "usd_vnd"
     /\ BlockGet(payload.current[asset], "sell_rate") = None
  \/ /\ asset = "vn30"
     /\ \/ startswith(lower(SourceText(payload.current[asset])),
                      FALLBACK_PREFIX)
        \/ "vn30" \notin DOMAIN TimeseriesOf(payload)

\* Whether the asset's check sets severe_degradation: no current section,
\* or usd_vnd without a sell_rate.
AssetSevere(payload, asset) ==
  \/ asset \notin DOMAIN payload.current
  \/ /\ asset = "usd_vnd"
     /\ BlockGet(payload.current[asset], "sell_rate") = None

\* The reasons of the if / elif chain on the current section.
CurrentReasons(payload, asset) ==
  IF asset \notin DOMAIN payload.current
    THEN <<<<"missing_current_section">>>>
  ELSE IF asset = "usd_vnd"
          /\ BlockGet(payload.current[asset], "sell_rate") = None
    THEN <<<<"missing_sell_rate">>>>
  ELSE IF asset = "vn30"
    THEN LET source == lower(SourceText(payload.current[asset]))
             series == IF "vn30" \in DOMAIN TimeseriesOf(payload)
                         THEN TimeseriesOf(payload)["vn30"] ELSE <<>>
         IN  (IF startswith(source, FALLBACK_PREFIX)
                THEN <<<<"hardcoded_fallback_source">>>> ELSE <<>>)
             \o (IF Len(series) < 2
                   THEN <<<<"short_timeseries">>>> ELSE <<>>)
  ELSE <<>>

\* The periods of a history list whose change_percent is None.
missing_periods(asset_history) ==
  LET absent == SelectSeq(asset_history, LAMBDA c : c.change_percent = None)
  IN  [i \in 1..Len(absent) |-> absent[i].period]

\* The reason of the history check: only for an asset with a history list.
HistoryReasons(payload, asset) ==
  IF asset \in DOMAIN HistoryOf(payload)
       /\ missing_periods(HistoryOf(payload)[asset]) # <<>>
    THEN <<<<"missing_history", missing_periods(HistoryOf(payload)[asset])>>>>
    ELSE <<>>

\* Variant: the reasons of the current section are left out.
AssetReasonsOfHistory(payload, asset) == HistoryReasons(payload, asset)

\* The reasons list of an asset.
AssetReasons(payload, asset) ==
  CurrentReasons(payload, asset) \o HistoryReasons(payload, asset)

\* Variant: every asset is reported ok.
StatusAlwaysOk(reasons) == "ok"

\* The status of an asset with the given reasons.
AssetStatus(reasons) == IF reasons # <<>> THEN "degraded" ELSE "ok"

\* _assess_payload_health(payload): the report, the severe flag and the
\* degraded assets in the order of REQUIRED_ASSETS.
assess_payload_health(payload) ==
  LET required == {REQUIRED_ASSETS[i] : i \in 1..Len(REQUIRED_ASSETS)}
      degraded == SelectSeq(REQUIRED_ASSETS,
                            LAMBDA a : AssetReasons(payload, a) # <<>>)
  IN  [health |->
         [overall |-> IF degraded # <<>> THEN "degraded" ELSE "ok",
          assets  |-> [a \in required |->
                         [status  |-> AssetStatus(AssetReasons(payload, a)),
                          reasons |-> AssetReasons(payload, a),
                          source  |-> IF a \in DOMAIN payload.current
                                        THEN BlockGet(payload.current[a],
                                                      "source")
                                        ELSE None]]],
       severe   |-> \E a \in required : AssetSevere(payload, a),
       degraded |-> degraded]

\* Source labels: a live provider, the label of the hardcoded fallback,
\* fallback in other cases, and a label that only contains the word.
SourceLabels ==
  {Some(LabelVPS),
   Some(LabelFallbackScraping),
   Some(LabelFallbackLower),
   Some(LabelFallbackUpper),
   Some(LabelNoFallback),
   None}

\* A history list with an entry for every configured period; the periods
\* in missing have no change_percent.
HistoryList(missing) ==
  [i \in PeriodIdx |->
     [period |-> PeriodLabel(i),
      change_percent |-> IF PeriodLabel(i) \in missing THEN None ELSE Some(1)]]

\* The history lists of an asset: complete, one or two periods without a
\* change_percent, and a list that stops after two periods.
HistoryLists ==
  {HistoryList({}), HistoryList({"1W"}), HistoryList({"1W", "3Y"}),
   SubSeq(HistoryList({}), 1, 2)}

\* A series of n points.
SeriesOfLength(n) == [i \in 1..n |-> <<i, 1>>]

Optional(S) == {None} \cup {Some(x) : x \in S}

\* The current sections of a payload: each required block present or not,
\* the usd_vnd block with, without or with a null sell_rate, the vn30
\* block with each source label, the land benchmark present or not.
CurrentSections ==
  {DictOf([gold |-> g, usd_vnd |-> u, bitcoin |-> b, vn30 |-> v,
           land_benchmark |-> l]) :
     g \in Optional({[source |-> Some(LabelDOJI)]}),
     u \in Optional({[source |-> Some(LabelChogia), sell_rate |-> Some(1)],
                     [source |-> Some(LabelChogia), sell_rate |-> None],
                     [source |-> Some(LabelChogia)]}),
     b \in Optional({[source |-> Some(LabelCoinMarketCap)]}),
     v \in Optional({[source |-> s, index_value |-> Some(1)] :
                       s \in SourceLabels}),
     l \in Optional({[source |-> Some(LabelLand)]})}

\* The history of a payload: absent, or per asset absent or a list (gold
\* any of the lists, vn30 complete or two periods short; usd_vnd and
\* bitcoin complete and land with a period without change_percent, or
\* the three absent).
Histories ==
  {None} \cup
  {Some(DictOf([gold |-> g, usd_vnd |-> u, bitcoin |-> u, vn30 |-> v,
                land |-> IF u = None THEN None
                         ELSE Some(HistoryList({"1D"}))])) :
     g \in Optional(HistoryLists),
     v \in Optional({HistoryList({}), HistoryList({"1W", "3Y"})}),
     u \in Optional({HistoryList({})})}

\* The timeseries of a payload: absent, or with a vn30 series of 0, 1 or 2
\* points or none, and with or without a one-point land series.
TimeseriesDicts ==
  {None} \cup
  {Some(DictOf([vn30 |-> v, land |-> l])) :
     v \in Optional({SeriesOfLength(n) : n \in 0..2}),
     l \in Optional({SeriesOfLength(1)})}

\* json_data = serialize_data(data): the current sections of the payload.
SerializeData ==
  /\ call.op = "none"
  /\ \E current \in CurrentSections :
       call' = [op |-> "serialized",
                payload |-> [current |-> current, history |-> None,
                             timeseries |-> None]]
  /\ UNCHANGED <<store, clock, ops, recorded>>

\* main adds the history and the timeseries it has, then
\* health, severe_degradation, degraded_assets =
\* _assess_payload_health(json_data).
AssessPayloadHealth ==
  /\ call.op = "serialized"
  /\ \E history \in Histories, timeseries \in TimeseriesDicts :
       LET payload == [call.payload EXCEPT !.history = history,
                                           !.timeseries = timeseries]
           r       == assess_payload_health(payload)
       IN  call' = [op |-> "assess", payload |-> payload,
                    health |-> r.health, severe |-> r.severe,
                    degraded |-> r.degraded]
  /\ UNCHANGED <<store, clock, ops, recorded>>

NextHealth ==
  \/ SerializeData
  \/ AssessPayloadHealth

InitHealth ==
  /\ store = EmptyStore
  /\ call = NoCall
  /\ clock = Date(2026, 2, 14) + 1
  /\ ops = 0
  /\ recorded = <<>>

SpecHealth == InitHealth /\ [][NextHealth]_vars

\* The assets required in every payload.
RequiredSet == {REQUIRED_ASSETS[i] : i \in 1..Len(REQUIRED_ASSETS)}

\* The members of a list.
Members(list) == {list[i] : i \in 1..Len(list)}

\* A source text whose first eight characters spell fallback in any case.
FallbackLabelled(text) ==
  /\ Len(text) >= 8
  /\ \A i \in 1..8 :
       text[i] \in {LabelFallbackLower[i], LabelFallbackUpper[i]}

\* The vn30 series of the assessed payload, empty when there is none.
Vn30SeriesAssessed ==
  IF call.payload.timeseries # None
       /\ "vn30" \in DOMAIN call.payload.timeseries[1]
    THEN call.payload.timeseries[1]["vn30"] ELSE <<>>

\* C16: severe_degradation is set exactly when a required asset has no
\* current block or the usd_vnd block has no sell_rate, whatever the vn30
\* source, the series, the history and the land sections are.
C16_SevereIffMissingRequired ==
  call.op = "assess" =>
    (call.severe <=>
       \/ \E a \in RequiredSet : a \notin DOMAIN call.payload.current
       \/ /\ "usd_vnd" \in DOMAIN call.payload.current
          /\ \/ "sell_rate" \notin DOMAIN call.payload.current["usd_vnd"]
             \/ call.payload.current["usd_vnd"].sell_rate = None)

\* A payload with every required block and a sell_rate, whose vn30 source
\* is the fallback label, with no timeseries, a gold history lacking
\* change_percent values and no land benchmark: degraded, not severe.
C16_Witness ==
  /\ call.op = "assess"
  /\ ~call.severe
  /\ call.payload.current["vn30"].source = Some(LabelFallbackScraping)
  /\ call.payload.timeseries = None
  /\ call.payload.history # None
  /\ "gold" \in DOMAIN call.payload.history[1]
  /\ call.payload.history[1]["gold"][2].change_percent = None
  /\ "land_benchmark" \notin DOMAIN call.payload.current
  /\ call.degraded = <<"gold", "vn30">>

\* C17: with a vn30 block, a source starting with fallback in any case
\* gives the reason hardcoded_fallback_source, a series of fewer than two
\* points (or none) gives short_timeseries, and either makes vn30 degraded
\* and a member of the degraded list.
C17_Vn30FallbackOrShortDegraded ==
  (call.op = "assess" /\ "vn30" \in DOMAIN call.payload.current) =>
    LET source  == call.payload.current["vn30"].source
        labelled == source # None /\ FallbackLabelled(source[1])
        short   == Len(Vn30SeriesAssessed) < 2
        vn30    == call.health.assets["vn30"]
    IN  /\ labelled =>
             <<"hardcoded_fallback_source">> \in Members(vn30.reasons)
        /\ short => <<"short_timeseries">> \in Members(vn30.reasons)
        /\ (labelled \/ short) =>
             /\ vn30.status = "degraded"
             /\ "vn30" \in Members(call.degraded)

\* A payload whose vn30 source is "Fallback (Scraping Failed)" and whose
\* vn30 series has two points: only the source reason is reported.
C17_Witness ==
  /\ call.op = "assess"
  /\ "vn30" \in DOMAIN call.payload.current
  /\ call.payload.current["vn30"].source = Some(LabelFallbackScraping)
  /\ Len(Vn30SeriesAssessed) = 2
  /\ call.health.assets["vn30"].reasons = <<<<"hardcoded_fallback_source">>>>
  /\ call.health.assets["vn30"].status = "degraded"

\* C18: a status is ok exactly for an empty reasons list and degraded
\* otherwise; the degraded list holds exactly the assets with status
\* degraded; overall is degraded exactly when the list is not empty; the
\* report has an entry for the four required assets and no other.
C18_ReportConsistent ==
  call.op = "assess" =>
    /\ DOMAIN call.health.assets = {"gold", "usd_vnd", "bitcoin", "vn30"}
    /\ \A a \in DOMAIN call.health.assets :
         /\ call.health.assets[a].status \in {"ok", "degraded"}
         /\ call.health.assets[a].status = "ok"
              <=> call.health.assets[a].reasons = <<>>
    /\ Members(call.degraded) =
         {a \in DOMAIN call.health.assets :
            call.health.assets[a].status = "degraded"}
    /\ Len(call.degraded) = Cardinality(Members(call.degraded))
    /\ call.health.overall \in {"ok", "degraded"}
    /\ call.health.overall = "degraded" <=> call.degraded # <<>>

\* A report with an ok asset and a degraded one, for a payload that has
\* land sections.
C18_Witness ==
  /\ call.op = "assess"
  /\ call.health.assets["gold"].status = "ok"
  /\ call.health.assets["bitcoin"].status = "degraded"
  /\ call.degraded = <<"bitcoin">>
  /\ call.health.overall = "degraded"
  /\ "land_benchmark" \in DOMAIN call.payload.current

\* The configured periods for which the assessed payload has no
\* change_percent of asset a.
PeriodsWithoutChange(a) ==
  {PeriodLabel(i) : i \in PeriodIdx} \
    (IF call.payload.history # None /\ a \in DOMAIN call.payload.history[1]
       THEN {c.period : c \in {x \in Members(call.payload.history[1][a]) :
                                 x.change_percent # None}}
       ELSE {})

\* C19: a required asset for which the payload lacks the change_percent
\* of a configured period is degraded and has a missing_history reason
\* naming those periods, also when it has no history at all.
C19_MissingHistoryDegraded ==
  call.op = "assess" =>
    \A a \in RequiredSet :
      PeriodsWithoutChange(a) # {} =>
        /\ call.health.assets[a].status = "degraded"
        /\ \E r \in Members(call.health.assets[a].reasons) :
             /\ r[1] = "missing_history"
             /\ Members(r[2]) = PeriodsWithoutChange(a)

----------------------------------------------------------------------------
(* Restoration from the last-known-good payload (under SpecRestore).       *)

\* d[key] = value on a dict.
DictPut(d, key, value) ==
  [k \in (DOMAIN d) \cup {key} |-> IF k = key THEN value ELSE d[k]]

\* section.get(asset) of a history or timeseries section that may be
\* absent: None, or Some(block).
SectionGet(section, asset) ==
  IF section # None /\ asset \in DOMAIN section[1]
    THEN Some(section[1][asset]) ELSE None

\* payload.setdefault(name, {}); payload[name][asset] = block
SectionPut(section, asset, block) ==
  Some(DictPut(IF section = None THEN <<>> ELSE section[1], asset, block))

\* Variant: only the value block is taken from the previous payload.
restore_asset_block_only(r, previous, asset) ==
  IF asset \notin DOMAIN previous.current THEN r
  ELSE [payload  |-> [r.payload EXCEPT
                        !.current = DictPut(r.payload.current, asset,
                                            previous.current[asset])],
        restored |-> Append(r.restored, asset)]

\* One pass of the loop of _restore_degraded_assets_from_lkg on
\* r = [payload, restored]: an asset missing from the previous payload is
\* skipped; otherwise its value block is replaced, and its history and
\* timeseries blocks are replaced when the previous payload has them.
restore_asset(r, previous, asset) ==
  IF asset \notin DOMAIN previous.current THEN r
  ELSE [payload  |->
          [current    |-> DictPut(r.payload.current, asset,
                                  previous.current[asset]),
           history    |-> IF SectionGet(previous.history, asset) # None
                            THEN SectionPut(r.payload.history, asset,
                                            previous.history[1][asset])
                            ELSE r.payload.history,
           timeseries |-> IF SectionGet(previous.timeseries, asset) # None
                            THEN SectionPut(r.payload.timeseries, asset,
                                            previous.timeseries[1][asset])
                            ELSE r.payload.timeseries],
        restored |-> Append(r.restored, asset)]

\* The loop over degraded_assets from position i.
RECURSIVE RestoreFrom(_, _, _, _)
RestoreFrom(r, previous, degraded_assets, i) ==
  IF i > Len(degraded_assets) THEN r
  ELSE RestoreFrom(restore_asset(r, previous, degraded_assets[i]),
                   previous, degraded_assets, i + 1)

\* Variant: every required asset is restored, degraded or not.
restore_required_assets_from_lkg(payload, previous, degraded_assets) ==
  RestoreFrom([payload |-> payload, restored |-> <<>>], previous,
              REQUIRED_ASSETS, 1)

\* _restore_degraded_assets_from_lkg(payload, previous_payload,
\* degraded_assets): the patched payload and the restored assets.
restore_degraded_assets_from_lkg(payload, previous, degraded_assets) ==
  RestoreFrom([payload |-> payload, restored |-> <<>>], previous,
              degraded_assets, 1)

\* A complete history list of the previous payload.
PreviousHistoryList ==
  [i \in PeriodIdx |->
     [period |-> PeriodLabel(i), change_percent |-> Some(MaxValue)]]

\* A series of the previous payload.
PreviousSeries == <<<<1, MaxValue>>, <<2, MaxValue>>>>

\* Payloads of this run: gold and vn30 present or not, usd_vnd absent or
\* with or without its sell_rate, vn30 from VPS or from the fallback; no
\* history, lists with a gap for gold and vn30, or a complete vn30 list;
\* no timeseries, a short vn30 series, or two-point gold and vn30 series.
RunPayloads ==
  [current :
     {DictOf([gold |-> g, usd_vnd |-> u, vn30 |-> v,
              bitcoin |-> Some([source |-> Some(LabelCoinMarketCap)]),
              land_benchmark |-> Some([source |-> Some(LabelLand)])]) :
        g \in Optional({[source |-> Some(LabelDOJI)]}),
        u \in Optional({[source |-> Some(LabelChogia), sell_rate |-> Some(1)],
                        [source |-> Some(LabelChogia), sell_rate |-> None]}),
        v \in Optional({[source |-> Some(s), index_value |-> Some(1)] :
                          s \in {LabelVPS, LabelFallbackScraping}})},
   history :
     {None,
      Some(DictOf([gold |-> Some(HistoryList({"1W"})),
                   vn30 |-> Some(HistoryList({"1W"}))])),
      Some(DictOf([vn30 |-> Some(HistoryList({}))]))},
   timeseries :
     {None,
      Some(DictOf([vn30 |-> Some(SeriesOfLength(1))])),
      Some(DictOf([gold |-> Some(SeriesOfLength(2)),
                   vn30 |-> Some(SeriesOfLength(2))]))}]

\* Previously published payloads: healthy blocks, each of gold, usd_vnd
\* and vn30 present or not, with or without history and timeseries
\* sections and entries.
PreviousPayloads ==
  [current :
     {DictOf([gold |-> g, usd_vnd |-> u, vn30 |-> v,
              bitcoin |-> Some([source |-> Some(LabelCoinMarketCap),
                                btc_to_vnd |-> Some(MaxValue)]),
              land_benchmark |-> Some([source |-> Some(LabelLand),
                                       ratio |-> Some(MaxValue)])]) :
        g \in Optional({[source |-> Some(LabelDOJI),
                         sell_price |-> Some(MaxValue)]}),
        u \in Optional({[source |-> Some(LabelChogia),
                         sell_rate |-> Some(MaxValue)]}),
        v \in Optional({[source |-> Some(LabelVPS),
                         index_value |-> Some(MaxValue)]})},
   history :
     {None} \cup
     {Some(DictOf([gold |-> g, vn30 |-> v])) :
        g \in Optional({PreviousHistoryList}),
        v \in Optional({PreviousHistoryList})},
   timeseries :
     {None} \cup
     {Some(DictOf([gold |-> g, vn30 |-> v])) :
        g \in Optional({PreviousSeries}),
        v \in Optional({PreviousSeries})}]

\* The first assessment of the assembled payload.
RestoreAssessed ==
  /\ call.op = "none"
  /\ \E payload \in RunPayloads :
       LET r == assess_payload_health(payload)
       IN  call' = [op |-> "assessed", payload |-> payload,
                    health |-> r.health, severe |-> r.severe,
                    degraded |-> r.degraded]
  /\ UNCHANGED <<store, clock, ops, recorded>>

\* if severe_degradation and previous_payload is not None: restore the
\* degraded assets, then assess the patched payload.
RestoreFromLkg ==
  /\ call.op = "assessed"
  /\ call.severe
  /\ \E previous \in PreviousPayloads :
       LET r == restore_degraded_assets_from_lkg(call.payload, previous,
                                                 call.degraded)
           h == assess_payload_health(r.payload)
       IN  call' = [op |-> "restored", before |-> call.payload,
                    previous |-> previous, given |-> call.degraded,
                    payload |-> r.payload, restored |-> r.restored,
                    health |-> h.health, severe |-> h.severe,
                    degraded |-> h.degraded]
  /\ UNCHANGED <<store, clock, ops, recorded>>

NextRestore ==
  \/ RestoreAssessed
  \/ RestoreFromLkg

SpecRestore == InitHealth /\ [][NextRestore]_vars

\* The degraded assets of the restoration that the previous payload has.
Restorable == Members(call.given) \cap DOMAIN call.previous.current

\* C20 (as stated): after the restoration, every degraded asset of the
\* previous payload has the previous payload's value block, history block
\* and timeseries block, and is reported restored.
C20_BlocksEqualPrevious ==
  call.op = "restored" =>
    \A a \in Restorable :
      /\ call.payload.current[a] = call.previous.current[a]
      /\ SectionGet(call.payload.history, a)
           = SectionGet(call.previous.history, a)
      /\ SectionGet(call.payload.timeseries, a)
           = SectionGet(call.previous.timeseries, a)
      /\ a \in Members(call.restored)

\* C20 (amended): after the restoration, every degraded asset of the
\* previous payload has the previous payload's value block and is reported
\* restored; its history block and its timeseries block are those of the
\* previous payload where it has them, and are what they were otherwise.
C20_BlocksEqualPreviousWhenAvailable ==
  call.op = "restored" =>
    /\ \A a \in Restorable :
         /\ call.payload.current[a] = call.previous.current[a]
         /\ SectionGet(call.payload.history, a)
              = IF SectionGet(call.previous.history, a) # None
                  THEN SectionGet(call.previous.history, a)
                  ELSE SectionGet(call.before.history, a)
         /\ SectionGet(call.payload.timeseries, a)
              = IF SectionGet(call.previous.timeseries, a) # None
                  THEN SectionGet(call.previous.timeseries, a)
                  ELSE SectionGet(call.before.timeseries, a)
    /\ Members(call.restored) = Restorable

\* A restoration of vn30 from a previous payload that has a vn30 history
\* list but no vn30 series: the history list is replaced and the run's own
\* short series stays.
C20_Witness ==
  /\ call.op = "restored"
  /\ "vn30" \in Restorable
  /\ "vn30" \in DOMAIN call.before.current
  /\ call.payload.current["vn30"].source = Some(LabelVPS)
  /\ SectionGet(call.before.history, "vn30") = Some(HistoryList({"1W"}))
  /\ SectionGet(call.payload.history, "vn30") = Some(PreviousHistoryList)
  /\ SectionGet(call.previous.timeseries, "vn30") = None
  /\ SectionGet(call.payload.timeseries, "vn30") = Some(SeriesOfLength(1))

----------------------------------------------------------------------------
(* One run of main() and the runs that follow it (under SpecRun).  store   *)
(* is the payload file data.json, call the run in progress: its position   *)
(* pc, the steps taken so far and the values main holds; ops counts the    *)
(* runs started.                                                           *)

\* The payload file: absent, holding a published payload, holding text
\* that is no JSON document, or holding bytes that are no UTF-8 text.
PayloadFile(kind, data) == [kind |-> kind, data |-> data]

\* _load_previous_payload(output_file): None for a missing file and for a
\* JSONDecodeError or IOError; the UnicodeDecodeError of an undecodable
\* file is not among the caught exceptions.
load_previous_payload(file) ==
  [raised  |-> file.kind = "undecodable",
   payload |-> IF file.kind = "valid" THEN Some(file.data) ELSE None]

\* The name of the value field of an asset's block.
ValueField(a) ==
  CASE a = "gold"    -> "sell_price"
    [] a = "usd_vnd" -> "sell_rate"
    [] a = "bitcoin" -> "btc_to_vnd"
    [] a = "vn30"    -> "index_value"

\* serialize_data(data): a block for every asset that has data, and the
\* land benchmark.
serialize_data(data) ==
  [k \in {a \in CurrentAssets : data[a] # None} \cup {"land_benchmark"} |->
     IF k = "land_benchmark" THEN [source |-> Some(LabelLand)]
     ELSE (ValueField(k) :> Some(data[k][1].value))
            @@ [source |-> Some(data[k][1].source)]]

\* merge_current_into_timeseries(timeseries, data) on a dict of series.
merged_timeseries(series, data, today) ==
  LET D     == DOMAIN series
      heap  == [i \in 1..Cardinality(D) |-> series[KeyAt(D, i)]]
      refs  == [a \in D |-> KeyIndex(D, a)]
      value == [a \in CurrentAssets |->
                  IF data[a] = None THEN None ELSE Some(data[a][1].value)]
      m     == merge_current_into_timeseries(heap, refs, value, today)
  IN  [a \in DOMAIN m.merged |-> m.heap[m.merged[a]]]

\* json_data after lines 361-369: the serialized data, the history when
\* there is one, the merged timeseries when there is one.
assemble_payload(data, history, timeseries, today) ==
  [current    |-> serialize_data(data),
   history    |-> IF DOMAIN history # {} THEN Some(history) ELSE None,
   timeseries |-> IF DOMAIN timeseries # {}
                    THEN Some(merged_timeseries(timeseries, data, today))
                    ELSE None]

\* The payload with its health block, as written to the file.
emitted_payload(payload, assessment, restored) ==
  [current    |-> payload.current,
   history    |-> payload.history,
   timeseries |-> payload.timeseries,
   health     |-> assessment.health,
   severe_degradation |-> assessment.severe,
   restored_from_lkg  |-> restored]

\* open(output_file, 'w') and json.dump: the file holds the payload when
\* both succeed, is untouched when the open fails, and holds what was
\* written before the failure when the dump fails.
write_payload(file, payload, outcome) ==
  CASE outcome = "ok"          -> PayloadFile("valid", payload)
    [] outcome = "open_failed" -> file
    [] outcome = "dump_failed" -> PayloadFile("truncated", None)

WriteOutcomes == {"ok", "open_failed", "dump_failed"}

\* What fetch_all_data may return: gold and bitcoin fetched, usd_vnd fetched
\* or not, vn30 fetched from VPS, as the hardcoded fallback, or not; one
\* value for the assets of a run.
RunData ==
  {[gold    |-> Some([value |-> v, source |-> LabelDOJI]),
    usd_vnd |-> IF u THEN Some([value |-> v, source |-> LabelChogia])
                ELSE None,
    bitcoin |-> Some([value |-> v, source |-> LabelCoinMarketCap]),
    vn30    |-> IF s = None THEN None
                ELSE Some([value |-> v, source |-> s[1]])] :
     u \in BOOLEAN, v \in {1, MaxValue},
     s \in {None, Some(LabelVPS), Some(LabelFallbackScraping)}}

\* fetch_changes(data) when it returns: a complete list for every asset
\* that has data.
RunHistory(data) ==
  [a \in {x \in CurrentAssets : data[x] # None} |-> HistoryList({})]

\* fetch_timeseries() when it returns: a series ending yesterday for every
\* asset.
RunSeries(today) == [a \in Assets |-> <<<<today - 1, 1>>>>]

\* The run before any step.
RunStart ==
  [op |-> "run", pc |-> "load_previous", steps |-> <<>>, previous |-> None,
   data |-> None, history |-> <<>>, timeseries |-> <<>>, payload |-> None,
   first |-> None, last |-> None, restored |-> <<>>, exit |-> None,
   before |-> None, outcome |-> None]

\* The run after a step that leads to the position pc.
Stepped(step, pc) ==
  [call EXCEPT !.pc = pc, !.steps = Append(call.steps, step)]

\* previous_payload = _load_previous_payload(output_file); an exception
\* that is not caught ends the process with status 1.
RunLoadPrevious ==
  /\ call.op = "run" /\ call.pc = "load_previous"
  /\ LET r == load_previous_payload(store)
     IN  call' = IF r.raised
                   THEN [Stepped("load_previous", "aborted") EXCEPT
                           !.exit = Some(1)]
                   ELSE [Stepped("load_previous", "fetch_current") EXCEPT
                           !.previous = r.payload]
  /\ UNCHANGED <<store, clock, ops, recorded>>

\* data = fetch_all_data(): a repository that raises leaves its field None.
RunFetchCurrent ==
  /\ call.op = "run" /\ call.pc = "fetch_current"
  /\ \E data \in RunData :
       call' = [Stepped("fetch_current", "record_snapshots") EXCEPT
                  !.data = Some(data)]
  /\ UNCHANGED <<store, clock, ops, recorded>>

\* _record_current_snapshots(data)
RunRecordSnapshots ==
  /\ call.op = "run" /\ call.pc = "record_snapshots"
  /\ call' = Stepped("record_snapshots", "fetch_history")
  /\ UNCHANGED <<store, clock, ops, recorded>>

\* fetch_changes and fetch_timeseries, each inside try / except Exception:
\* a call that raises leaves {}.
RunFetchHistory ==
  /\ call.op = "run" /\ call.pc = "fetch_history"
  /\ \E changes_raised \in BOOLEAN, series_raised \in BOOLEAN :
       call' = [Stepped("fetch_history", "assemble") EXCEPT
                  !.history = IF changes_raised THEN <<>>
                              ELSE RunHistory(call.data[1]),
                  !.timeseries = IF series_raised THEN <<>>
                                 ELSE RunSeries(DateOf(clock))]
  /\ UNCHANGED <<store, clock, ops, recorded>>

\* json_data = serialize_data(data), plus history and timeseries.
RunAssemble ==
  /\ call.op = "run" /\ call.pc = "assemble"
  /\ call' = [Stepped("assemble", "assess") EXCEPT
                !.payload = Some(assemble_payload(call.data[1], call.history,
                                                  call.timeseries,
                                                  DateOf(clock)))]
  /\ UNCHANGED <<store, clock, ops, recorded>>

\* Variant: the restoration is never entered.
restore_wanted_never(severe_degradation, previous) == FALSE

\* Variant: the restoration is entered whenever a previous payload was
\* loaded.
restore_wanted_always(severe_degradation, previous) == previous # None

\* if severe_degradation and previous_payload is not None
restore_wanted(severe_degradation, previous) ==
  severe_degradation /\ previous # None

\* health, severe_degradation, degraded_assets =
\* _assess_payload_health(json_data)
RunAssess ==
  /\ call.op = "run" /\ call.pc = "assess"
  /\ LET r == assess_payload_health(call.payload[1])
     IN  call' = [Stepped("assess",
                          IF restore_wanted(r.severe, call.previous)
                            THEN "restore" ELSE "persist") EXCEPT
                    !.first = Some(r), !.last = Some(r)]
  /\ UNCHANGED <<store, clock, ops, recorded>>

\* restored_assets = _restore_degraded_assets_from_lkg(json_data,
\* previous_payload, degraded_assets)
RunRestore ==
  /\ call.op = "run" /\ call.pc = "restore"
  /\ LET r == restore_degraded_assets_from_lkg(call.payload[1],
                                               call.previous[1],
                                               call.last[1].degraded)
     IN  call' = [Stepped("restore", "reassess") EXCEPT
                    !.payload = Some(r.payload), !.restored = r.restored]
  /\ UNCHANGED <<store, clock, ops, recorded>>

\* Variant: the first assessment is kept.
reassessed_stale(payload, first) == first

\* The assessment of the patched payload (line 380).
reassessed(payload, first) == assess_payload_health(payload)

RunReassess ==
  /\ call.op = "run" /\ call.pc = "reassess"
  /\ call' = [Stepped("reassess", "persist") EXCEPT
                !.last = Some(reassessed(call.payload[1], call.first[1]))]
  /\ UNCHANGED <<store, clock, ops, recorded>>

\* The health block is attached and the payload written; main returns 0
\* when the write succeeded and 1 when it raised.
RunPersist ==
  /\ call.op = "run" /\ call.pc = "persist"
  /\ \E outcome \in WriteOutcomes :
       /\ store' = write_payload(store,
                                 emitted_payload(call.payload[1], call.last[1],
                                                 call.restored),
                                 outcome)
       /\ call' = [Stepped("persist", "done") EXCEPT
                     !.exit = Some(IF outcome = "ok" THEN 0 ELSE 1),
                     !.before = store, !.outcome = Some(outcome)]
  /\ UNCHANGED <<clock, ops, recorded>>

\* The next scheduled run starts.
RunAgain ==
  /\ call.op = "run" /\ call.pc \in {"done", "aborted"}
  /\ ops < MaxOps
  /\ call' = RunStart
  /\ ops' = ops + 1
  /\ UNCHANGED <<store, clock, recorded>>

NextRun ==
  \/ RunLoadPrevious
  \/ RunFetchCurrent
  \/ RunRecordSnapshots
  \/ RunFetchHistory
  \/ RunAssemble
  \/ RunAssess
  \/ RunRestore
  \/ RunReassess
  \/ RunPersist
  \/ RunAgain

\* A payload published by an earlier run in which every fetch succeeded.
PublishedPayload ==
  LET data == [a \in CurrentAssets |->
                 Some([value |-> MaxValue, source |-> LabelVPS])]
      payload == assemble_payload(data, RunHistory(data), RunSeries(0), 0)
  IN  emitted_payload(payload, assess_payload_health(payload), <<>>)

\* The first run starts with the payload file absent, published, cut short
\* by a failed write, or cut short inside a multi-byte character (the
\* payload is written with ensure_ascii=False and holds labels such as
\* "Mi H\u1ed3ng").
InitRun ==
  /\ store \in {PayloadFile("missing", None),
                PayloadFile("valid", PublishedPayload),
                PayloadFile("truncated", None),
                PayloadFile("undecodable", None)}
  /\ call = RunStart
  /\ clock = Date(2026, 2, 14) + 1
  /\ ops = 1
  /\ recorded = <<>>

SpecRun == InitRun /\ [][NextRun]_vars

\* ---------------------------------------------------------------------
\* Properties of a run (under SpecRun).

\* How many times a step is in the log of the run.
StepCount(step) == Cardinality({i \in DOMAIN call.steps : call.steps[i] = step})

\* The position of the first occurrence of a step in the log, 0 if none.
StepAt(step) ==
  IF StepCount(step) = 0 THEN 0
  ELSE CHOOSE i \in DOMAIN call.steps :
         /\ call.steps[i] = step
         /\ \A j \in DOMAIN call.steps : call.steps[j] = step => i <= j

\* The assessment of a payload as it stands in the payload file.
AssessedAsEmitted(emitted) ==
  assess_payload_health([current |-> emitted.current,
                         history |-> emitted.history,
                         timeseries |-> emitted.timeseries])

\* C21: in every run the restoration from the last-known-good payload
\* happens only if the first assessment flagged severe degradation and a
\* previous payload was loaded, happens at most once, and is followed by a
\* reassessment of the patched payload; the health block and the
\* severe_degradation flag of the persisted payload are those of an
\* assessment of the payload as emitted.
C21_RestoreThenReassess ==
  call.op = "run" =>
    /\ StepCount("restore") <= 1
    /\ StepCount("restore") = 1 =>
         /\ call.first # None /\ call.first[1].severe
         /\ call.previous # None
         /\ StepAt("assess") < StepAt("restore")
         /\ call.pc \notin {"restore", "reassess"} =>
              /\ StepCount("reassess") = 1
              /\ StepAt("reassess") = StepAt("restore") + 1
    /\ StepCount("reassess") = 1 => StepCount("restore") = 1
    /\ (call.pc = "done" /\ call.exit = Some(0)) =>
         /\ store.kind = "valid"
         /\ store.data.health = AssessedAsEmitted(store.data).health
         /\ store.data.severe_degradation = AssessedAsEmitted(store.data).severe

\* A run restored from the previous payload, reassessed, and persisted a
\* payload that is no longer severely degraded.
C21_Witness ==
  /\ call.op = "run" /\ call.pc = "done" /\ call.exit = Some(0)
  /\ StepCount("restore") = 1 /\ StepCount("reassess") = 1
  /\ call.first[1].severe
  /\ ~store.data.severe_degradation
  /\ call.restored # <<>>

\* The steps of a run that did not restore, and of one that did.
PlainSteps ==
  <<"load_previous", "fetch_current", "record_snapshots", "fetch_history",
    "assemble", "assess", "persist">>

RestoringSteps ==
  <<"load_previous", "fetch_current", "record_snapshots", "fetch_history",
    "assemble", "assess", "restore", "reassess", "persist">>

IsPrefix(s, t) == Len(s) <= Len(t) /\ SubSeq(t, 1, Len(s)) = s

\* C22: every run takes its steps in the order fetch current values, record
\* snapshots, fetch history, assemble, assess, then restore and reassess
\* only if the assessment was severe, then persist; each step is taken at
\* most once, and the previous payload is read before the payload file is
\* written.
C22_FixedStepOrder ==
  call.op = "run" =>
    /\ IsPrefix(call.steps, PlainSteps) \/ IsPrefix(call.steps, RestoringSteps)
    /\ \A step \in {call.steps[i] : i \in DOMAIN call.steps} :
         StepCount(step) = 1
    /\ StepCount("restore") = 1 => call.first[1].severe
    /\ call.pc = "done" =>
         /\ call.steps \in {PlainSteps, RestoringSteps}
         /\ StepAt("load_previous") < StepAt("persist")
         /\ call.previous = load_previous_payload(call.before).payload

\* A second run that restored from the payload the first run wrote and then
\* replaced that payload.
C22_Witness ==
  /\ call.op = "run" /\ call.pc = "done" /\ ops = 2
  /\ call.steps = RestoringSteps
  /\ call.before.kind = "valid"
  /\ store.kind = "valid" /\ store # call.before
  /\ call.before.data # PublishedPayload

\* C23: a run ends with a non-zero exit status if and only if writing the
\* payload file fails; no failure of an earlier step keeps the run from
\* reaching the persist step, and the run exits with status 0 when the
\* write succeeds.
C23_NonZeroExitIffWriteFails ==
  (call.op = "run" /\ call.exit # None) =>
    /\ StepCount("persist") = 1
    /\ call.exit # Some(0) <=> call.outcome # Some("ok")

\* C25: after every run that started with a published payload in the
\* payload file, whatever failed in the run, its persist step included,
\* the next run can read a payload back from the file.
C25_PayloadReadableAfterRun ==
  (call.op = "run" /\ call.pc = "done" /\ call.before.kind = "valid") =>
    /\ ~load_previous_payload(store).raised
    /\ load_previous_payload(store).payload # None

----------------------------------------------------------------------------
(* fetch_changes as main calls it (under SpecChanges).  call holds the     *)
(* assets that have a current value, the position in fetch_changes, the    *)
(* dict built so far, the asset whose aggregation raised, and what main    *)
(* holds as history and timeseries afterwards.                             *)

\* What a live history source may do during the call: fail with a caught
\* exception, raise one that the aggregation does not catch, or return the
\* value of the day a week ago.
ChangesOutcomes(now) ==
  {Failed, Raised, Ok([d \in {DateOf(MinusDays(now, 7))} |-> MaxValue])}

ChangesStart(present) ==
  [op |-> "fetch_changes", pc |-> "gold", present |-> present,
   result |-> <<>>, raised_in |-> None, history |-> None,
   timeseries |-> None]

\* result[asset] = self._X_changes(...): the dict gains the asset's list
\* and fetch_changes goes on, or the exception leaves fetch_changes.
ChangesStep(a, next, r) ==
  /\ call.op = "fetch_changes" /\ call.pc = a /\ a \in call.present
  /\ store' = r.store
  /\ \E changes \in r.results :
       call' = IF r.status = "raised"
                 THEN [call EXCEPT !.pc = "raised", !.raised_in = Some(a)]
                 ELSE [call EXCEPT !.pc = next,
                                   !.result = DictPut(call.result, a, changes)]
  /\ UNCHANGED <<clock, ops, recorded>>

\* if current_data.X: is false
ChangesSkip ==
  /\ call.op = "fetch_changes" /\ call.pc \in Assets
  /\ call.pc \notin call.present
  /\ call' = [call EXCEPT !.pc = CASE call.pc = "gold"    -> "usd_vnd"
                                   [] call.pc = "usd_vnd" -> "bitcoin"
                                   [] call.pc = "bitcoin" -> "vn30"
                                   [] call.pc = "vn30"    -> "land"
                                   [] call.pc = "land"    -> "return"]
  /\ UNCHANGED <<store, clock, ops, recorded>>

ChangesGold ==
  \E webgia \in ChangesOutcomes(clock),
     chogia \in ChangesOutcomes(clock) \cup {Skipped} :
    /\ (chogia = Skipped) <=> (webgia.kind # "error")
    /\ ChangesStep("gold", "usd_vnd",
                   gold_changes(store, CurrentValue("gold"), clock,
                                webgia, chogia))

ChangesUsdVnd ==
  \E chogia \in ChangesOutcomes(clock) :
    ChangesStep("usd_vnd", "bitcoin",
                usd_vnd_changes(store, CurrentValue("usd_vnd"), clock, chogia))

ChangesBitcoin ==
  \E coingecko \in ChangesOutcomes(clock) :
    ChangesStep("bitcoin", "vn30",
                bitcoin_changes(store, CurrentValue("bitcoin"), clock,
                                coingecko))

ChangesVn30 ==
  \E vps \in ChangesOutcomes(clock) :
    ChangesStep("vn30", "land",
                vn30_changes(store, CurrentValue("vn30"), clock, vps))

ChangesLand ==
  ChangesStep("land", "return",
              land_changes(store, CurrentValue("land"), clock))

\* The series of every asset whose export did not raise.
fetch_timeseries(st, raising, outcome) ==
  [a \in Assets \ raising |->
     CASE a = "gold"    -> gold_timeseries(outcome, outcome)
       [] a = "usd_vnd" -> usd_vnd_timeseries(outcome)
       [] a = "bitcoin" -> bitcoin_timeseries(outcome)
       [] a = "vn30"    -> vn30_timeseries(outcome)
       [] a = "land"    -> land_timeseries(st)]

\* main: history = history_repo.fetch_changes(data), or {} when it raised;
\* then timeseries = history_repo.fetch_timeseries().
ChangesDone ==
  /\ call.op = "fetch_changes" /\ call.pc \in {"return", "raised"}
  /\ \E raising \in {{}, {"gold"}, {"vn30", "land"}},
        outcome \in {Failed, Ok(<<>>)} :
       call' = [call EXCEPT
                  !.pc = "done",
                  !.history = Some(IF call.pc = "raised" THEN <<>>
                                   ELSE call.result),
                  !.timeseries = Some(fetch_timeseries(store, raising,
                                                       outcome))]
  /\ UNCHANGED <<store, clock, ops, recorded>>

NextChanges ==
  \/ ChangesSkip
  \/ ChangesGold
  \/ ChangesUsdVnd
  \/ ChangesBitcoin
  \/ ChangesVn30
  \/ ChangesLand
  \/ ChangesDone

InitChanges ==
  /\ store = EmptyStore
  /\ \E present \in SUBSET Assets : call = ChangesStart(present)
  /\ clock = Date(2026, 2, 12) + 1
  /\ ops = 0
  /\ recorded = <<>>

SpecChanges == InitChanges /\ [][NextChanges]_vars

\* C24: a failure while computing one asset's history or series never
\* keeps the other assets' history and series out of the run: every asset
\* that has a current value and whose own aggregation did not fail has its
\* full per-period list in the history main holds, and its series.
C24_OtherAssetsKeepHistory ==
  (call.op = "fetch_changes" /\ call.pc = "done") =>
    \A a \in call.present :
      (call.raised_in # Some(a) /\ a \in DOMAIN call.result) =>
        /\ a \in DOMAIN call.history[1]
        /\ Len(call.history[1][a]) = Len(HISTORY_PERIODS)

----------------------------------------------------------------------------
(* The land-benchmark comparisons (under SpecRatio).  A Decimal quotient   *)
(* is kept as a fraction in lowest terms; a Decimal division by zero       *)
(* raises.                                                                 *)

\* LAND_BENCHMARK_MID_VND_PER_M2 (config), as the serialization test has it.
LAND_BENCHMARK_MID_VND_PER_M2 == 255000000

RECURSIVE Gcd(_, _)
Gcd(a, b) == IF b = 0 THEN a ELSE Gcd(b, a % b)

\* numerator / denominator on Decimals.
decimal_divide(numerator, denominator) ==
  IF denominator = 0
    THEN [raised |-> TRUE, value |-> None]
    ELSE LET g == Gcd(numerator, denominator)
         IN  [raised |-> FALSE,
              value  |-> Some([num |-> numerator \div g,
                               den |-> denominator \div g])]

\* Variant without the test of the denominator.
safe_divide_unguarded(numerator, denominator) ==
  IF numerator = None \/ denominator = None
    THEN [raised |-> FALSE, value |-> None]
    ELSE decimal_divide(numerator[1], denominator[1])

\* _safe_divide(numerator, denominator)
safe_divide(numerator, denominator) ==
  IF numerator = None \/ denominator = None \/ denominator = Some(0)
    THEN [raised |-> FALSE, value |-> None]
    ELSE decimal_divide(numerator[1], denominator[1])

\* _build_land_benchmark(data)['comparisons'], from the sell price of gold,
\* the price of bitcoin and the sell rate of usd_vnd, each None when the
\* asset was not fetched.
build_land_benchmark(gold_sell_price, bitcoin_price, usd_sell_rate) ==
  LET midpoint == Some(LAND_BENCHMARK_MID_VND_PER_M2)
      one_million_usd_vnd ==
        IF usd_sell_rate # None THEN Some(usd_sell_rate[1] * 1000000)
        ELSE None
  IN  [gold_tael_per_m2 |-> safe_divide(midpoint, gold_sell_price),
       m2_per_gold_tael |-> safe_divide(gold_sell_price, midpoint),
       m2_per_btc       |-> safe_divide(bitcoin_price, midpoint),
       m2_per_1m_usd    |-> safe_divide(one_million_usd_vnd, midpoint)]

\* Operands of a division: absent, zero, small, or the benchmark midpoint.
DivideOperands ==
  {None} \cup {Some(v) : v \in 0..MaxValue \cup {LAND_BENCHMARK_MID_VND_PER_M2}}

\* The values of a fetched asset: the models accept positive values only.
FetchedValues(fixture) == {None} \cup {Some(v) : v \in 1..MaxValue \cup {fixture}}

NoRatio ==
  [op |-> "none", numerator |-> None, denominator |-> None,
   result |-> None, comparisons |-> <<>>]

SafeDivide ==
  /\ ops < MaxOps
  /\ \E numerator \in DivideOperands, denominator \in DivideOperands :
       call' = [NoRatio EXCEPT !.op = "safe_divide",
                               !.numerator = numerator,
                               !.denominator = denominator,
                               !.result =
                                 Some(safe_divide(numerator, denominator))]
  /\ ops' = ops + 1
  /\ UNCHANGED <<store, clock, recorded>>

\* The operands of the four comparisons, as _build_land_benchmark passes
\* them.
ComparisonOperands(gold_sell_price, bitcoin_price, usd_sell_rate) ==
  LET midpoint == Some(LAND_BENCHMARK_MID_VND_PER_M2)
  IN  [gold_tael_per_m2 |-> <<midpoint, gold_sell_price>>,
       m2_per_gold_tael |-> <<gold_sell_price, midpoint>>,
       m2_per_btc       |-> <<bitcoin_price, midpoint>>,
       m2_per_1m_usd    |-> <<IF usd_sell_rate = None THEN None
                              ELSE Some(usd_sell_rate[1] * 1000000),
                              midpoint>>]

BuildLandBenchmark ==
  /\ ops < MaxOps
  /\ \E gold_sell_price \in FetchedValues(180000000),
        bitcoin_price \in FetchedValues(2000000000),
        usd_sell_rate \in FetchedValues(2000) :
       call' = [NoRatio EXCEPT
                  !.op = "land_benchmark",
                  !.comparisons =
                    [k \in DOMAIN ComparisonOperands(None, None, None) |->
                       [numerator |->
                          ComparisonOperands(gold_sell_price, bitcoin_price,
                                             usd_sell_rate)[k][1],
                        denominator |->
                          ComparisonOperands(gold_sell_price, bitcoin_price,
                                             usd_sell_rate)[k][2],
                        result |->
                          build_land_benchmark(gold_sell_price, bitcoin_price,
                                               usd_sell_rate)[k]]]]
  /\ ops' = ops + 1
  /\ UNCHANGED <<store, clock, recorded>>

NextRatio ==
  \/ SafeDivide
  \/ BuildLandBenchmark

InitRatio ==
  /\ store = EmptyStore
  /\ call = NoRatio
  /\ clock = 0
  /\ ops = 0
  /\ recorded = <<>>

SpecRatio == InitRatio /\ [][NextRatio]_vars

\* The divisions of the last operation: operands and result.
Divisions ==
  CASE call.op = "safe_divide" ->
         {[numerator |-> call.numerator, denominator |-> call.denominator,
           result |-> call.result[1]]}
    [] call.op = "land_benchmark" ->
         {call.comparisons[k] : k \in DOMAIN call.comparisons}
    [] OTHER -> {}

\* The result is the quotient of the operands.
IsQuotient(result, numerator, denominator) ==
  /\ result.value # None
  /\ result.value[1].den > 0
  /\ result.value[1].num * (denominator \div Gcd(numerator, denominator))
       = (numerator \div Gcd(numerator, denominator)) * result.value[1].den

\* C26 as stated: a ratio is absent whenever one of its operands is absent
\* or zero, otherwise it is the quotient of its operands; computing it
\* never raises a division error and never yields zero.
C26_AbsentOnMissingOrZero ==
  \A d \in Divisions :
    /\ ~d.result.raised
    /\ IF d.numerator \in {None, Some(0)} \/ d.denominator \in {None, Some(0)}
         THEN d.result.value = None
         ELSE /\ IsQuotient(d.result, d.numerator[1], d.denominator[1])
              /\ d.result.value[1].num # 0

\* C26: a ratio is absent whenever one of its operands is absent or its
\* denominator is zero, otherwise it is the quotient of its operands;
\* computing it never raises a division error, and it is zero exactly when
\* its numerator is zero.
C26_AbsentOnMissingOrZeroDenominator ==
  \A d \in Divisions :
    /\ ~d.result.raised
    /\ IF d.numerator = None \/ d.denominator \in {None, Some(0)}
         THEN d.result.value = None
         ELSE /\ IsQuotient(d.result, d.numerator[1], d.denominator[1])
              /\ d.result.value[1].num = 0 <=> d.numerator = Some(0)

\* The comparisons of a run in which gold was not fetched and the others
\* were: the two gold ratios are absent, the other two are quotients.
C26_Witness ==
  /\ call.op = "land_benchmark"
  /\ call.comparisons.gold_tael_per_m2.result.value = None
  /\ call.comparisons.m2_per_gold_tael.result.value = None
  /\ call.comparisons.m2_per_btc.result.value = Some([num |-> 400, den |-> 51])
  /\ call.comparisons.m2_per_1m_usd.result.value # None

----------------------------------------------------------------------------
(* _compute_change_percent on its own (under SpecChange); percentages are  *)
(* in hundredths of a percent.                                             *)

\* Old and new values: zero, small values, the values of the unit tests,
\* and values whose change falls on and next to half a hundredth.
ChangeOlds == 0..MaxValue \cup {3, 100, 200, 20000}

ChangeNews ==
  0..MaxValue
    \cup {80, 100, 120, 199, 200, 201, 19997, 19999, 20000, 20001, 20003}

NoChange == [op |-> "none", old_value |-> 0, new_value |-> 0, result |-> 0]

ComputeChangePercent ==
  /\ ops < MaxOps
  /\ \E old_value \in ChangeOlds, new_value \in ChangeNews :
       call' = [op |-> "compute_change_percent", old_value |-> old_value,
                new_value |-> new_value,
                result |-> compute_change_percent(old_value, new_value)]
  /\ ops' = ops + 1
  /\ UNCHANGED <<store, clock, recorded>>

NextChange == ComputeChangePercent

InitChange ==
  /\ store = EmptyStore
  /\ call = NoChange
  /\ clock = 0
  /\ ops = 0
  /\ recorded = <<>>

SpecChange == InitChange /\ [][NextChange]_vars

\* C27: compute_change(old, new) is exactly 0 when old = 0 and otherwise
\* (new - old) / old * 100 rounded to 2 decimal places (no hundredth is
\* nearer to the quotient); it is 0.00 when new = old, positive when new
\* exceeds old by 0.01 percent or by more than half of that, negative in
\* the mirrored cases, 20.00 for 100 -> 120 and -20.00 for 100 -> 80.
C27_ChangeRounded ==
  call.op = "compute_change_percent" =>
    LET old_value == call.old_value
        new_value == call.new_value
        exact     == (new_value - old_value) * 10000
        error     == call.result * old_value - exact
    IN  /\ old_value = 0 => call.result = 0
        /\ old_value > 0 =>
             /\ 2 * Abs(error) <= old_value
             /\ new_value = old_value => call.result = 0
             /\ 2 * exact > old_value => call.result > 0
             /\ 2 * exact < -old_value => call.result < 0
             /\ exact >= old_value => call.result >= 1
             /\ exact <= -old_value => call.result <= -1
        /\ (old_value = 100 /\ new_value = 120) => call.result = 2000
        /\ (old_value = 100 /\ new_value = 80) => call.result = -2000

\* A change that is rounded up to the next hundredth: 20000 -> 20003 is
\* 0.015 percent and gives 0.02.
C27_Witness ==
  /\ call.op = "compute_change_percent"
  /\ call.old_value = 20000 /\ call.new_value = 20003
  /\ call.result = 2

----------------------------------------------------------------------------
(* The cached repository fetch (under SpecCache).  store is the cache file *)
(* of the repository: None, or the entry with its timestamp and data;      *)
(* clock is time.time() in seconds.                                        *)

CACHE_TTL_SECONDS == 600

\* _read_cache(cache_key): the data of an entry younger than the TTL.
read_cache(entry, now) ==
  IF entry # None /\ now - entry[1].timestamp < CACHE_TTL_SECONDS
    THEN Some(entry[1].data) ELSE None

\* _read_stale_cache(cache_key): the data of the entry, whatever its age.
read_stale_cache(entry) == IF entry # None THEN Some(entry[1].data) ELSE None

\* _write_cache(cache_key, data)
write_cache(data, now) == Some([timestamp |-> now, data |-> data])

\* What the wrapped function does: return a value or raise
\* requests.exceptions.RequestException.
FuncReturned(v) == [kind |-> "returned", value |-> v]

RequestFailed == [kind |-> "request_exception", value |-> None]

\* cached(func): the wrapper, given what func does if it is called.  The
\* result says whether func was called, whether the wrapper raised, what it
\* returned, and the entry left in the cache.
cached(entry, now, func) ==
  LET cached_data == read_cache(entry, now)
  IN  IF cached_data # None
        THEN [called |-> FALSE, raised |-> FALSE, value |-> cached_data,
              entry |-> entry]
      ELSE IF func.kind = "returned"
        THEN [called |-> TRUE, raised |-> FALSE, value |-> Some(func.value),
              entry |-> write_cache(func.value, now)]
      ELSE [called |-> TRUE, raised |-> read_stale_cache(entry) = None,
            value |-> read_stale_cache(entry), entry |-> entry]

\* The hardcoded GoldPrice returned when every source failed.
GoldFallback == [value |-> 175400000, source |-> LabelFallbackScraping]

\* GoldRepository.fetch without the decorator: the price of the first
\* source that answers, or the hardcoded fallback; live is None when DOJI,
\* Mi Hong and SJC are all unavailable.
gold_fetch(live) ==
  IF live # None THEN FuncReturned([value |-> live[1], source |-> LabelDOJI])
  ELSE FuncReturned(GoldFallback)

NoFetch ==
  [op |-> "none", at |-> 0, live |-> None, before |-> None,
   called |-> FALSE, raised |-> FALSE, value |-> None]

\* GoldRepository().fetch() as fetch_all_data calls it.
CachedFetch ==
  /\ ops < MaxOps
  /\ \E live \in {None} \cup {Some(v) : v \in 1..MaxValue} :
       LET r == cached(store, clock, gold_fetch(live))
       IN  /\ store' = r.entry
           /\ call' = [op |-> "fetch", at |-> clock, live |-> live,
                       before |-> store, called |-> r.called,
                       raised |-> r.raised, value |-> r.value]
  /\ ops' = ops + 1
  /\ UNCHANGED <<clock, recorded>>

\* Time passes between runs, up to twice the TTL after an entry is due.
CacheTick ==
  /\ clock < 3 * CACHE_TTL_SECONDS
  /\ clock' = clock + CACHE_TTL_SECONDS \div 2
  /\ UNCHANGED <<store, call, ops, recorded>>

NextCache ==
  \/ CachedFetch
  \/ CacheTick

InitCache ==
  /\ store = None
  /\ call = NoFetch
  /\ clock = 0
  /\ ops = 0
  /\ recorded = <<>>

SpecCache == InitCache /\ [][NextCache]_vars

\* C28: when the sources are unavailable and a cached value exists, even
\* one older than the TTL, the fetch returns the cached value and leaves
\* the cache entry unchanged; an entry younger than the TTL is returned
\* without any source being contacted.
C28_StaleOnUnavailable ==
  (call.op = "fetch" /\ call.before # None) =>
    /\ call.live = None =>
         /\ call.value = Some(call.before[1].data)
         /\ store = call.before
    /\ call.at - call.before[1].timestamp < CACHE_TTL_SECONDS =>
         /\ call.value = Some(call.before[1].data)
         /\ ~call.called

----------------------------------------------------------------------------
(* Two writers recording into the history store (under SpecWriters).  A    *)
(* record is a load, an upsert in memory and a save; there is no lock, so  *)
(* the steps of two writers may interleave.  store is the store file, call *)
(* the two writers: what each records, its position, what it loaded, and   *)
(* the order of the steps taken.                                           *)

Writers == {1, 2}

Writer(a, v, t) ==
  [pc |-> "idle", asset |-> a, value |-> v, at |-> t, loaded |-> EmptyStore]

\* The writer loads the file.
WriterLoad ==
  \E i \in Writers :
    /\ call.op = "writers" /\ call.w[i].pc = "idle"
    /\ call' = [call EXCEPT !.w[i].pc = "loaded",
                            !.w[i].loaded = load_history(store).data,
                            !.steps = Append(call.steps, <<i, "load">>)]
    /\ UNCHANGED <<store, clock, ops, recorded>>

\* The writer upserts its entry into what it loaded and saves the result.
WriterSave ==
  \E i \in Writers :
    /\ call.op = "writers" /\ call.w[i].pc = "loaded"
    /\ store' = save_history(record_snapshot(call.w[i].loaded,
                                             call.w[i].asset,
                                             call.w[i].value, call.w[i].at))
    /\ call' = [call EXCEPT !.w[i].pc = "saved",
                            !.steps = Append(call.steps, <<i, "save">>)]
    /\ UNCHANGED <<clock, ops, recorded>>

NextWriters ==
  \/ WriterLoad
  \/ WriterSave

\* The two writers record different entries: the same asset on different
\* days, or different assets; the file is absent or holds an older entry.
InitWriters ==
  /\ store \in {FileMissing,
                FileValid(record_snapshot(EmptyStore, "gold", 1,
                                          3 * TicksPerDay))}
  /\ \E t1 \in {0, TicksPerDay}, v1 \in Values, v2 \in Values,
        second \in {<<"gold", "other">>, <<"bitcoin", "same">>,
                    <<"bitcoin", "other">>} :
       call = [op |-> "writers",
               w |-> <<Writer("gold", v1, t1),
                       Writer(second[1], v2,
                              IF second[2] = "same" THEN t1
                              ELSE TicksPerDay - t1)>>,
               steps |-> <<>>]
  /\ clock = 0
  /\ ops = 0
  /\ recorded = <<>>

SpecWriters == InitWriters /\ [][NextWriters]_vars

\* Both writers have saved.
BothSaved == call.op = "writers" /\ \A i \in Writers : call.w[i].pc = "saved"

\* The store holds the entry of writer i.
HoldsEntryOf(i) ==
  /\ store.kind = "valid"
  /\ DateOf(call.w[i].at) \in DOMAIN store.data[call.w[i].asset]
  /\ store.data[call.w[i].asset][DateOf(call.w[i].at)] = call.w[i].value

\* One writer saved before the other loaded.
Serialized ==
  call.steps \in {<<<<1, "load">>, <<1, "save">>, <<2, "load">>, <<2, "save">>>>,
                  <<<<2, "load">>, <<2, "save">>, <<1, "load">>, <<1, "save">>>>}

\* C29 as stated: after two writers have recorded concurrently, the store
\* holds the entries of both, for every interleaving of their load and
\* save steps.
C29_NoLostUpdate ==
  BothSaved => \A i \in Writers : HoldsEntryOf(i)

\* C29: after two writers have recorded, the store holds the entries of
\* both when one writer saved before the other loaded; when both loaded
\* before either saved, the store holds the entry of the writer that saved
\* last and not the entry of the other.
C29_NoLostUpdateWhenSerialized ==
  BothSaved =>
    /\ Serialized => \A i \in Writers : HoldsEntryOf(i)
    /\ ~Serialized =>
         \A i \in Writers :
           HoldsEntryOf(i) <=> call.steps[Len(call.steps)] = <<i, "save">>

\* Two records one after the other on a file that held an older entry: the
\* store holds both new entries and the older one.
C29_Witness ==
  /\ BothSaved /\ Serialized
  /\ \A i \in Writers : HoldsEntryOf(i)
  /\ call.w[1].asset = call.w[2].asset
  /\ Cardinality(DOMAIN store.data["gold"]) = 3

----------------------------------------------------------------------------
(* The live-tier lookups on their own (under SpecLookup): the result of a  *)
(* live source has entries on some of the days around the target day, each *)
(* day with a value of its own.                                            *)

LookupTarget == Date(2026, 2, 5) + 1

\* The days up to 4 days from the target day.
LookupDays == {DateOf(LookupTarget) + k : k \in -4..4}

LookupRates ==
  {[d \in S |-> d - DateOf(LookupTarget) + 5] : S \in SUBSET LookupDays}

NoLookup == [op |-> "none", rates |-> <<>>, at |-> 0, got |-> None]

FindChogiaRate ==
  /\ call.op = "none"
  /\ \E rates \in LookupRates :
       call' = [op |-> "find_chogia_rate", rates |-> rates,
                at |-> LookupTarget,
                got |-> find_chogia_rate(rates, LookupTarget)]
  /\ UNCHANGED <<store, clock, ops, recorded>>

FindClosestPrice ==
  /\ call.op = "none"
  /\ \E day_prices \in LookupRates :
       call' = [op |-> "find_closest_price", rates |-> day_prices,
                at |-> LookupTarget,
                got |-> find_closest_price(day_prices, LookupTarget)]
  /\ UNCHANGED <<store, clock, ops, recorded>>

NextLookup ==
  \/ FindChogiaRate
  \/ FindClosestPrice

InitLookup ==
  /\ store = EmptyStore
  /\ call = NoLookup
  /\ clock = LookupTarget
  /\ ops = 0
  /\ recorded = <<>>

SpecLookup == InitLookup /\ [][NextLookup]_vars

\* The offsets k in 0..3 at which the live result has an entry k days after
\* or k days before the target day.
HitOffsets ==
  {k \in 0..3 :
     \/ DateOf(call.at) + k \in DOMAIN call.rates
     \/ DateOf(call.at) - k \in DOMAIN call.rates}

\* C30: the live-tier lookup returns the value at the smallest offset k in
\* 0..3 with an entry on day target+k or target-k, the entry of target+k
\* when both days have one, and nothing when no entry lies within 3 days;
\* the entry returned is at minimal distance from the target day.
C30_NearestLiveEntry ==
  call.op \in {"find_chogia_rate", "find_closest_price"} =>
    IF HitOffsets = {} THEN call.got = None
    ELSE LET k   == CHOOSE x \in HitOffsets : \A y \in HitOffsets : x <= y
             day == DateOf(call.at)
         IN  /\ call.got = Some(IF day + k \in DOMAIN call.rates
                                  THEN call.rates[day + k]
                                  ELSE call.rates[day - k])
             /\ \A d \in DOMAIN call.rates : Abs(d - day) >= k

\* Entries two days after and two days before the target day and none
\* nearer: the later one is returned.
C30_Witness ==
  /\ call.op = "find_closest_price"
  /\ DOMAIN call.rates = {DateOf(call.at) - 2, DateOf(call.at) + 2,
                          DateOf(call.at) + 4}
  /\ call.got = Some(call.rates[DateOf(call.at) + 2])

----------------------------------------------------------------------------
(* The gold aggregation with its two live sources (under SpecGold): the    *)
(* call decides from the primary's outcome whether the secondary is        *)
(* contacted; call.secondary is Skipped when it was not.                   *)

\* Days the gold sources may report: within 3 days of the 1W target and of
\* the 1M target.
GoldLiveDays(now) ==
  {DateOf(MinusDays(now, 7)) - 3, DateOf(MinusDays(now, 30)) + 1}

\* What a gold source does when contacted; every entry of a source has the
\* value v.
GoldOutcomes(now, v) ==
  {Failed, Raised} \cup
    {Ok([d \in S |-> v]) : S \in SUBSET GoldLiveDays(now)}

\* Variant: chogia.vn is contacted whenever the webgia fetch did not end
\* the call.
gold_secondary_contacted_always(webgia) == webgia.kind # "raise"

\* if webgia_rates is None: reached unless the webgia fetch raised an
\* exception the call does not catch; webgia_rates is None after a caught
\* exception.
gold_secondary_contacted(webgia) ==
  webgia.kind # "raise" /\ RatesOf(webgia) = None

\* _gold_changes(current_value), given what each source does if contacted.
GoldAggregation ==
  \E webgia \in GoldOutcomes(clock, 1),
     chogia_if_contacted \in GoldOutcomes(clock, MaxValue) :
    LET chogia == IF gold_secondary_contacted(webgia)
                    THEN chogia_if_contacted ELSE Skipped
    IN  Aggregated("gold", CurrentValue("gold"), webgia, chogia,
                   gold_changes(store, CurrentValue("gold"), clock,
                                webgia, chogia))

\* A gold snapshot recorded by an earlier run.
GoldRecord ==
  \E v \in {1, MaxValue}, t \in RecordTimes(clock) \cup {MinusDays(clock, 7)} :
    RecordSnapshot("gold", v, t) /\ UNCHANGED recorded

NextGold ==
  \/ GoldRecord
  \/ GoldAggregation

SpecGold == Init /\ [][NextGold]_vars

\* The value the secondary's data gives for period i of the call, if any.
SecondaryValue(i) ==
  find_chogia_rate(call.secondary.rates, MinusDays(call.at, PeriodDays(i)))

----------------------------------------------------------------------------
(* Seeding (under Spec and SpecSeed) *)

\* C32: vn30 seeding skips a seed exactly when the store already holds a
\* snapshot for the seed's calendar day and records every other seed, so
\* that after seeding every vn30 seed day has a store entry for that day:
\* the snapshot that was there, or the seed value.
C32_EveryVn30SeedDayHasEntry ==
  (call.op = "changes" /\ call.asset = "vn30") =>
    \A i \in DOMAIN VN30_HISTORICAL_SEEDS :
      LET day == SeedDay(VN30_HISTORICAL_SEEDS[i])
      IN  /\ day \in DOMAIN call.seeded
          /\ call.seeded[day] = IF day \in DOMAIN call.before
                                  THEN call.before[day]
                                  ELSE SeedValue(VN30_HISTORICAL_SEEDS[i])

\* Variant: every asset's seeds are written only where get_value_at has no
\* answer.
seeding_step_protective(st, a) == SeedMissing(st, a, SeedsOf(a), 1)

\* The seeding step of each asset's aggregation.
seeding_step(st, a) ==
  CASE a = "gold"    -> seed_historical_gold(st)
    [] a = "usd_vnd" -> seed_historical_usd_vnd(st)
    [] a = "bitcoin" -> seed_historical_bitcoin(st)
    [] a = "vn30"    -> seed_historical_vn30(st)
    [] a = "land"    -> seed_historical_land(st)

\* Midnight of the i-th seed of asset a.
SeedTime(a, i) == SeedDay(SeedsOf(a)[i]) * TicksPerDay

\* Snapshots recorded ahead of seeding: on the day of the asset's first
\* seed, and two days after the day of its last seed.
SeedRecordTimes(a) ==
  {SeedTime(a, 1) + 1, SeedTime(a, Len(SeedsOf(a))) + 2 * TicksPerDay}

SeedRecord ==
  \E a \in Assets, v \in {1, MaxValue} :
    \E t \in SeedRecordTimes(a) :
      RecordSnapshot(a, v, t) /\ UNCHANGED recorded

\* One asset's seeding step, as the first step of its aggregation.
Seed ==
  \E a \in Assets :
    /\ ops < MaxOps
    /\ store' = seeding_step(store, a)
    /\ call' = [NoCall EXCEPT !.op = "seed", !.asset = a, !.at = clock,
                              !.status = "returned", !.before = store[a],
                              !.seeded = seeding_step(store, a)[a]]
    /\ ops' = ops + 1
    /\ UNCHANGED <<clock, recorded>>

NextSeed == SeedRecord \/ Seed

SpecSeed == Init /\ [][NextSeed]_vars

\* The seeding step applied to the seeded store changes nothing.
SeedingRepeatable == seeding_step(store, call.asset) = store

\* The stored days within the lookup tolerance of the i-th seed's day.
NearSeed(h, a, i) == DaysInTolerance(h, SeedTime(a, i))

\* C33 (as stated): seeding twice equals seeding once, and after seeding
\* get_value_at answers every seed's date with that seed's value.
C33_SeedValuesRetrievable ==
  call.op = "seed" =>
    /\ SeedingRepeatable
    /\ \A i \in DOMAIN SeedsOf(call.asset) :
         get_value_at(store, call.asset, SeedTime(call.asset, i))
           = {Some(SeedValue(SeedsOf(call.asset)[i]))}

\* C33 (amended): seeding twice equals seeding once; after seeding
\* get_value_at answers every seed's date with a value, which is the seed's
\* value for gold, usd_vnd, bitcoin and land, and for vn30 the seed's value
\* unless a snapshot recorded before seeding lies within the lookup
\* tolerance of the seed's day, in which case it is such a snapshot's value
\* or the seed's.
C33_SeedingIdempotent ==
  call.op = "seed" =>
    /\ SeedingRepeatable
    /\ \A i \in DOMAIN SeedsOf(call.asset) :
         LET a    == call.asset
             got  == get_value_at(store, a, SeedTime(a, i))
             seed == Some(SeedValue(SeedsOf(a)[i]))
         IN  /\ None \notin got
             /\ a # "vn30" => got = {seed}
             /\ a = "vn30" =>
                  got \subseteq {seed} \cup {Some(call.before[d]) :
                                              d \in NearSeed(call.before, a, i)}

\* Seeding vn30 over a store that holds a snapshot on a seed's day.
C33_Witness ==
  /\ call.op = "seed" /\ call.asset = "vn30"
  /\ \E i \in DOMAIN VN30_HISTORICAL_SEEDS :
       /\ SeedDay(VN30_HISTORICAL_SEEDS[i]) \in DOMAIN call.before
       /\ store["vn30"][SeedDay(VN30_HISTORICAL_SEEDS[i])]
            # SeedValue(VN30_HISTORICAL_SEEDS[i])

----------------------------------------------------------------------------
(* Current-value repositories (under SpecFetch) *)

FetchRepositories == {"gold", "usd_vnd", "vn30"}

\* The sources of each repository's fetch, in the order of its try blocks.
FetchSources(repo) ==
  CASE repo = "gold"    -> <<"doji", "mihong", "sjc">>
    [] repo = "usd_vnd" -> <<"chogia", "egcurrency", "open_er_api">>
    [] repo = "vn30"    -> <<"vietstock", "vps_api", "cafef">>

\* The source label each source puts on its result ("Mi Hong" for the
\* accented label of the second gold source).
SourceLabel(src) ==
  CASE src = "doji"        -> LabelDOJI
    [] src = "mihong"      -> <<"M", "i", " ", "H", "o", "n", "g">>
    [] src = "sjc"         -> <<"S", "J", "C">>
    [] src = "chogia"      -> LabelChogia
    [] src = "egcurrency"  -> <<"E", "G", "C", "u", "r", "r", "e", "n", "c", "y">>
    [] src = "open_er_api" -> <<"E", "x", "c", "h", "a", "n", "g", "e", "R", "a", "t", "e", " ",
                                "A", "P", "I", " ", "(", "e", "s", "t", ".", ")">>
    [] src = "vietstock"   -> <<"V", "i", "e", "t", "s", "t", "o", "c", "k">>
    [] src = "vps_api"     -> LabelVPS
    [] src = "cafef"       -> <<"C", "a", "f", "e", "F">>

\* What a source's server may answer: no usable HTTP response, a page or
\* document without the figure, a figure that is not a number, or the
\* number n (0 stands for a number below the source's accepted range).
Down == [kind |-> "down", n |-> 0]

NoFigure == [kind |-> "no_figure", n |-> 0]

NotANumber == [kind |-> "not_a_number", n |-> 0]

Figure(n) == [kind |-> "figure", n |-> n]

SourceResponses == {Down, NoFigure, NotANumber} \cup {Figure(n) : n \in 0..MaxValue}

SourceRaised(exc) == [kind |-> "raise", exc |-> exc, value |-> 0]

SourceReturned(v) == [kind |-> "return", exc |-> "", value |-> v]

\* _extract_sell_rate found no rate: the EGCurrency block ends without a
\* return and without an exception.
SourceNothing == [kind |-> "nothing", exc |-> "", value |-> 0]

\* The result model's __post_init__: a value that is not positive raises
\* ValueError.
post_init(v) == IF v <= 0 THEN SourceRaised("ValueError") ELSE SourceReturned(v)

\* Sources that convert the figure with Decimal(...) outside any handler of
\* their own: a figure that is not a number raises decimal.InvalidOperation.
\* The others read it with sanitize_vn_number or under a bare except and
\* find no figure.
ConvertsWithDecimal == {"chogia", "open_er_api", "vps_api"}

\* One source's fetch, given its server's answer.
fetch_from(src, response) ==
  CASE response.kind = "down" -> SourceRaised("RequestException")
    [] src = "sjc" -> SourceRaised("ValueError")
    [] response.kind = "not_a_number" /\ src \in ConvertsWithDecimal ->
         SourceRaised("InvalidOperation")
    [] response.kind \in {"no_figure", "not_a_number"}
         \/ (response.kind = "figure" /\ response.n < 1) ->
         IF src = "egcurrency" THEN SourceNothing ELSE SourceRaised("ValueError")
    [] OTHER -> post_init(response.n)

\* The except tuple around each source.
Catches(src) ==
  IF src \in {"chogia", "open_er_api", "vietstock", "vps_api"}
    THEN {"RequestException", "ValueError", "KeyError"}
    ELSE {"RequestException", "ValueError"}

\* The hardcoded value of each repository (in its model's unit).
FallbackValue(repo) ==
  CASE repo = "gold"    -> 175400000
    [] repo = "usd_vnd" -> 26500
    [] repo = "vn30"    -> 1950

\* fetch (without the cache decorator) from source i on: the result says
\* whether fetch returned or raised, the value and source label returned,
\* and how many sources were contacted.
RECURSIVE repo_fetch(_, _, _)
repo_fetch(repo, responses, i) ==
  IF i > Len(FetchSources(repo))
    THEN [status |-> "returned", value |-> FallbackValue(repo),
          source |-> LabelFallbackScraping, contacted |-> i - 1, exc |-> ""]
  ELSE
    LET src == FetchSources(repo)[i]
        r   == fetch_from(src, responses[i])
    IN  IF r.kind = "return"
          THEN [status |-> "returned", value |-> r.value,
                source |-> SourceLabel(src), contacted |-> i, exc |-> ""]
        ELSE IF r.kind = "raise" /\ r.exc \notin Catches(src)
          THEN [status |-> "raised", value |-> 0, source |-> <<>>,
                contacted |-> i, exc |-> r.exc]
        ELSE repo_fetch(repo, responses, i + 1)

NoRepoFetch ==
  [op |-> "none", repo |-> "", responses |-> <<>>,
   result |-> [status |-> "", value |-> 0, source |-> <<>>, contacted |-> 0,
               exc |-> ""]]

\* GoldRepository / CurrencyRepository / StockRepository fetch, with the
\* cache empty.
RepoFetch ==
  \E repo \in FetchRepositories, responses \in [1..3 -> SourceResponses] :
    /\ call' = [op |-> "fetch", repo |-> repo, responses |-> responses,
                result |-> repo_fetch(repo, responses, 1)]
    /\ UNCHANGED <<store, clock, ops, recorded>>

InitFetch ==
  /\ store = EmptyStore
  /\ call = NoRepoFetch
  /\ clock = 0
  /\ ops = 0
  /\ recorded = <<>>

SpecFetch == InitFetch /\ [][RepoFetch]_vars

\* The sources of the last fetch that would hand back a result.
Succeeding ==
  {i \in 1..3 :
     fetch_from(FetchSources(call.repo)[i], call.responses[i]).kind = "return"}

FirstSucceeding == CHOOSE i \in Succeeding : \A j \in Succeeding : i <= j

StartsWithFallback(text) ==
  Len(text) >= 8 /\ SubSeq(text, 1, 8) = <<"F", "a", "l", "l", "b", "a", "c", "k">>

\* The result is that of the first source able to give one, no later source
\* having been contacted, or the hardcoded value when none is able to; the
\* value is positive.
FirstSuccessOrFallback ==
  /\ call.result.status = "returned"
  /\ call.result.value > 0
  /\ IF Succeeding # {}
       THEN /\ call.result.contacted = FirstSucceeding
            /\ call.result.source = SourceLabel(FetchSources(call.repo)[FirstSucceeding])
            /\ call.result.value = call.responses[FirstSucceeding].n
       ELSE /\ call.result.contacted = 3
            /\ StartsWithFallback(call.result.source)

\* C34: each current-value repository tries its sources in a fixed order,
\* returns the result of the first that succeeds without contacting a later
\* one, and returns a hardcoded value labelled "Fallback..." instead of
\* raising when every source fails with a network or parse error; the
\* returned value is positive.
C34_FirstSourceWinsNeverRaises == call.op = "fetch" => FirstSuccessOrFallback

\* The gold chain on its own does as C34 says.
GoldFirstSourceWins ==
  (call.op = "fetch" /\ call.repo = "gold") => FirstSuccessOrFallback

----------------------------------------------------------------------------
(* Properties across runs (under SpecRun) *)

\* A payload with a current-value block for each required asset, the
\* usd_vnd block carrying sell_rate.
Complete(payload) == \A a \in RequiredSet : ~AssetSevere(payload, a)

\* The run wrote its payload to the file.
Persisted ==
  call.op = "run" /\ call.pc = "done" /\ call.outcome = Some("ok")

\* A run that loaded a complete previous payload persists a payload that is
\* not severely degraded.
CompletePreviousNotSevere ==
  (Persisted /\ call.previous # None /\ Complete(call.previous[1])) =>
    /\ store.kind = "valid"
    /\ ~store.data.severe_degradation
    /\ Complete(store.data)

\* A readable file that is not severely degraded is followed by readable
\* files that are not severely degraded.
NonSevereStays ==
  (store.kind = "valid" /\ ~store.data.severe_degradation
     /\ store'.kind = "valid") => ~store'.data.severe_degradation

\* C35: if the previous payload loaded by a run has a current-value block
\* for each of the four required assets and its usd_vnd block carries
\* sell_rate, the payload the run persists is not severely degraded,
\* whatever fetches failed; hence once a non-severe payload is published
\* and stays readable, every later published payload is non-severe.
C35_NonSevereOncePublished ==
  []CompletePreviousNotSevere /\ [][NonSevereStays]_vars

\* A run whose own payload was severely degraded persisted a payload that
\* is not, having restored from a complete previous payload.
C35_Witness ==
  /\ Persisted
  /\ call.previous # None /\ Complete(call.previous[1])
  /\ call.first[1].severe
  /\ call.restored # <<>>
  /\ ~store.data.severe_degradation

----------------------------------------------------------------------------
(* Severity and the degraded list (under SpecHealth) *)

\* The required assets that make the assessed payload severe: no current
\* block, or usd_vnd without a sell_rate.
SeverityTriggers ==
  {a \in RequiredSet :
     \/ a \notin DOMAIN call.payload.current
     \/ /\ a = "usd_vnd"
        /\ \/ "sell_rate" \notin DOMAIN call.payload.current[a]
           \/ call.payload.current[a].sell_rate = None}

\* C36: whenever assess_payload_health flags severe_degradation, the
\* overall status is degraded and every asset that triggered the severity
\* (missing current block, or usd_vnd without sell_rate) is in the returned
\* degraded-asset list.
C36_SevereAssetsAreDegraded ==
  (call.op = "assess" /\ call.severe) =>
    /\ call.health.overall = "degraded"
    /\ SeverityTriggers # {}
    /\ \A a \in SeverityTriggers :
         /\ \E i \in 1..Len(call.degraded) : call.degraded[i] = a
         /\ call.health.assets[a].status = "degraded"

\* A severe payload with two triggering assets, both listed, beside an
\* asset that is degraded without triggering.
C36_Witness ==
  /\ call.op = "assess" /\ call.severe
  /\ Cardinality(SeverityTriggers) = 2
  /\ Len(call.degraded) = 3

----------------------------------------------------------------------------
(* The frame of the restoration (under SpecRestore) *)

\* The assignments of _restore_degraded_assets_from_lkg, as the dict
\* written and the key set, in the order of execution.  payload['history']
\* and payload['timeseries'] are the payload's own dicts (created by
\* setdefault when absent); no statement assigns into previous_payload or
\* a dict reached from it.
RECURSIVE restore_writes(_, _, _)
restore_writes(previous, degraded_assets, i) ==
  IF i > Len(degraded_assets) THEN <<>>
  ELSE
    LET asset == degraded_assets[i]
    IN  (IF asset \notin DOMAIN previous.current THEN <<>>
         ELSE <<[dict |-> "payload", key |-> asset]>>
              \o (IF SectionGet(previous.history, asset) # None
                    THEN <<[dict |-> "payload.history", key |-> asset]>>
                    ELSE <<>>)
              \o (IF SectionGet(previous.timeseries, asset) # None
                    THEN <<[dict |-> "payload.timeseries", key |-> asset]>>
                    ELSE <<>>))
        \o restore_writes(previous, degraded_assets, i + 1)

\* The degraded assets the previous payload has, in degraded-list order.
RestorableInOrder ==
  SelectSeq(call.given, LAMBDA a : a \in DOMAIN call.previous.current)

\* Every key a payload of the restoration may hold in a section.
SectionKeys ==
  Assets \cup DOMAIN call.before.current \cup DOMAIN call.previous.current

\* A section exists after the restoration exactly when it existed before
\* or a restored asset brought its block of that section.
SectionKept(before, after, previous) ==
  (after # None) <=>
    (before # None \/ \E a \in Restorable : SectionGet(previous, a) # None)

\* C37: the restoration changes only payload[a], history[a] and
\* timeseries[a] of the assets a that are in the degraded list and in the
\* previous payload; every other asset's blocks and every other top-level
\* key are unchanged, the previous payload is not written to, nothing is
\* created for an asset the previous payload lacks, and the returned list
\* is the restored assets in degraded-list order.
C37_RestoreFrame ==
  call.op = "restored" =>
    /\ call.restored = RestorableInOrder
    /\ DOMAIN call.payload.current = DOMAIN call.before.current \cup Restorable
    /\ \A k \in DOMAIN call.before.current \ Restorable :
         call.payload.current[k] = call.before.current[k]
    /\ \A a \in SectionKeys \ Restorable :
         /\ SectionGet(call.payload.history, a)
              = SectionGet(call.before.history, a)
         /\ SectionGet(call.payload.timeseries, a)
              = SectionGet(call.before.timeseries, a)
    /\ SectionKept(call.before.history, call.payload.history,
                   call.previous.history)
    /\ SectionKept(call.before.timeseries, call.payload.timeseries,
                   call.previous.timeseries)
    /\ LET writes == restore_writes(call.previous, call.given, 1)
       IN  \A i \in 1..Len(writes) :
             /\ writes[i].dict \in {"payload", "payload.history",
                                    "payload.timeseries"}
             /\ writes[i].key \in Restorable

\* A restoration with a degraded asset the previous payload lacks and one
\* it has; the payload had no history section
\* and gained one holding the restored asset's list only.
C37_Witness ==
  /\ call.op = "restored"
  /\ Members(call.given) \ Restorable # {}
  /\ Restorable # {}
  /\ call.before.history = None
  /\ call.payload.history # None
  /\ DOMAIN call.payload.history[1] \subseteq Restorable
  /\ call.payload.current["land_benchmark"]
       # call.previous.current["land_benchmark"]

----------------------------------------------------------------------------
(* The series and the current values of a payload (under SpecRun) *)

\* In payload p, every required asset with a current-value block and a
\* series has the value of its block as the value of the series' last
\* point.
LastPointIsCurrent(p) ==
  p.timeseries # None =>
    \A a \in (RequiredSet \cap DOMAIN p.current) \cap DOMAIN p.timeseries[1] :
      LET points == p.timeseries[1][a]
      IN  points # <<>> =>
            Some(points[Len(points)][2]) = p.current[a][ValueField(a)]

LastPointIsCurrentUnlessRestored ==
  (Persisted /\ call.restored = <<>>) => LastPointIsCurrent(store.data)

----------------------------------------------------------------------------
(* Today's snapshot through a run (under SpecToday) *)

\* What a live history source may report in a run at time now: rates for
\* any of today and the day a week ago, each 1 or MaxValue.
TodayOutcomes(now) ==
  {Failed, Raised} \cup
  {Ok(r) : r \in UNION {[S -> {1, MaxValue}] :
                          S \in SUBSET {DateOf(now), DateOf(MinusDays(now, 7))}}}

\* fetch_changes: the aggregation of one asset that has a current value.
asset_changes(a, st, current_value, now, primary, secondary) ==
  CASE a = "gold"    -> gold_changes(st, current_value, now, primary, secondary)
    [] a = "usd_vnd" -> usd_vnd_changes(st, current_value, now, primary)
    [] a = "bitcoin" -> bitcoin_changes(st, current_value, now, primary)
    [] a = "vn30"    -> vn30_changes(st, current_value, now, primary)

\* _record_current_snapshots(data): today's value of an asset is recorded.
TodayRecord ==
  /\ call.op = "none"
  /\ \E a \in CurrentAssets, v \in {1, MaxValue} :
       RecordSnapshot(a, v, clock) /\ UNCHANGED recorded

\* fetch_changes(data) for the asset just recorded, with the same value.
TodayFetchChanges ==
  /\ call.op = "record_snapshot"
  /\ \E primary \in TodayOutcomes(clock), secondary_if \in TodayOutcomes(clock) :
       LET secondary == IF call.asset = "gold" /\ gold_secondary_contacted(primary)
                          THEN secondary_if ELSE Skipped
       IN  Aggregated(call.asset, call.value, primary, secondary,
                      asset_changes(call.asset, store, call.value, clock,
                                    primary, secondary))

NextToday == TodayRecord \/ TodayFetchChanges

SpecToday == Init /\ [][NextToday]_vars

\* Today's entry of the asset of the last call holds the value v.
TodayHolds(v) ==
  /\ DateOf(call.at) \in DOMAIN store[call.asset]
  /\ store[call.asset][DateOf(call.at)] = v

\* A live source of the last call reported a rate for today.
LiveReportedToday ==
  \/ call.primary.kind = "ok" /\ DateOf(call.at) \in DOMAIN call.primary.rates
  \/ call.secondary.kind = "ok" /\ DateOf(call.at) \in DOMAIN call.secondary.rates

\* C39: for every asset whose current value v was fetched in a run, the
\* store's entry for today still holds v when the run ends: neither the
\* seeding nor the backfill of live history that follow the recording
\* replaces today's snapshot with a different value.
C39_TodaySnapshotKept == call.op = "changes" => TodayHolds(call.value)

\* When no live source reports a rate for today, today's snapshot is kept.
TodayKeptWithoutLiveToday ==
  (call.op = "changes" /\ ~LiveReportedToday) => TodayHolds(call.value)
====
